---- MODULE Spec2Model ----
(***************************************************************************)
(* AutoSimC: the staged refinement pipeline (splitter.py, and the stage    *)
(* functions of main.py).                                                  *)
(*                                                                         *)
(* Three specifications share the variables of this module:               *)
(*   SpecSel     the Result Selector, splitter.grab_best                   *)
(*   SpecLaunch  the worker pool of one stage, _launch_simc_commands       *)
(*   SpecRun     the Stage Orchestrator, start_stage and the stages        *)
(***************************************************************************)
EXTENDS Integers, Sequences, FiniteSets, TLC

(***************************************************************************)
(* Bounds of the model.                                                    *)
(***************************************************************************)
MaxResults == 3
MaxTopN == 3
MaxSplit == 2
MaxInstances == 2
MaxCommands == 3
MaxStages == 3
MaxProfiles == 2

\* Metrics are held in half units, so that 98, 99.5 and 100 are 196, 199, 200
\* and an error of 1.0 is 2.  The comparison of the filter is homogeneous in
\* the unit of the metric, so the unit does not change its outcome.
MetricValues == {196, 199, 200}
ErrorValues == {0, 2}
\* settings.default_error_rate_multiplier in hundredths (1.0 and 3.0); it is
\* positive, main.py:496.
Multipliers == {100, 300}

FilterKinds == {"target_error", "count"}

VARIABLES
    \* ---- splitter.grab_best ------------------------------------------
    selPc,          \* "start" | "done" | "error"
    selError,       \* "none" | "ValueError" | "RuntimeError"
    parsed,         \* the entries in parse order (list `best` before the sort)
    filter_by,      \* argument of grab_best
    filter_criterium,
    multiplier,     \* settings.default_error_rate_multiplier * 100
    best,           \* the ranked list
    filterd_best,   \* the filtered list
    target_subdir,  \* the target stage directory: [exists, files]
    target_before   \* target_subdir when grab_best was entered

selVars == <<selPc, selError, parsed, filter_by, filter_criterium, multiplier,
             best, filterd_best, target_subdir, target_before>>

VARIABLES
    \* ---- splitter._launch_simc_commands -------------------------------
    poolPc,              \* "idle" | "submit" | "collect" | "returned"
    commands,            \* the batch files of the commands, in command order
    is_last_stage,
    number_of_instances, \* settings.number_of_instances
    console_off,         \* settings.multi_sim_disable_console_output
    fut,                 \* per command: "new" | "pending" | "running" |
                         \*              "finished" | "cancelled"
    outcome,             \* per command: how _worker ended, [kind, code]
    collected,           \* the futures as_completed has yielded
    launchResult         \* "none" | "True" | "False"

poolVars == <<poolPc, commands, is_last_stage, number_of_instances, console_off,
              fut, outcome, collected, launchResult>>

VARIABLES
    \* ---- main.start_stage, run_static_stage, run_dynamic_stage ---------
    runPc,       \* "idle" | "start" | "enter" | "simulating" | "done" | "error"
    runError,    \* "none" or the exception that ended the run
    mode,        \* settings.auto_choose_static_or_dynamic
    stage,       \* the stage argument of the current call
    stages,      \* args.stages
    startStage,  \* the stage start_stage was called with
    configured,  \* the stages with an entry in settings.default_iterations
                 \* (static) or settings.default_target_error (dynamic)
    profiles,    \* the profile file (outputfile): its profiles by name
    dirs,        \* get_subdir(stage) for each stage
    \* ---- what happened so far ----------------------------------------
    launched,    \* the external processes started: [stage, file]
    failedAt,    \* the stages in which a process exited with a non-zero code
    derived,     \* the stages whose batch files were written in this run
    executed,    \* the stages whose simulation was started, in order
    enteredBad   \* the stages >= 2 entered without previous results

runVars == <<runPc, runError, mode, stage, stages, startStage, configured,
             profiles, dirs, launched, failedAt, derived, executed, enteredBad>>

VARIABLES
    \* ---- splitter.split on its own -----------------------------------
    splitPc,        \* "idle" | "start" | "done" | "error"
    splitError,     \* "none" | "ValueError"
    splitLines,     \* the lines of the input file
    splitSize,      \* the argument size
    splitDir,       \* the destination folder: [exists, files]
    splitDirBefore, \* the destination folder when split was called
    splitCount      \* the value split returned

splitVars == <<splitPc, splitError, splitLines, splitSize, splitDir,
               splitDirBefore, splitCount>>

VARIABLES
    \* ---- main.isValidWeaponPermutation on its own ----------------------
    weaponPc,     \* "idle" | "start" | "done"
    wow_class,    \* player_profile.wow_class
    mh_id,        \* permutation[10].item_id, the main hand
    oh_id,        \* permutation[11].item_id, the off hand
    weaponResult  \* "none" | "True" | "False" | "KeyError"

weaponVars == <<weaponPc, wow_class, mh_id, oh_id, weaponResult>>

VARIABLES
    \* ---- permutator.Permutator.permutate --------------------------------
    permPc,               \* "idle" | "start" | "done" | "rerun" | "error"
    permError,            \* "none" | "ValueError" | "IndexError"
    gear,                 \* simc_options['gear']: per slot, the raw strings
    gearInBag,            \* simc_options['gearInBag']: per slot, the bag items
    talents,              \* simc_options['talents']
    gems,                 \* self.gems: [none, lists]
    unique_jewelry,       \* self.unique_jewelry
    parsed_gear,          \* the gear catalog: per gear slot, its options
    talent_permutations,
    special_permutations, \* the pairs of the slots finger and trinket
    max_nperm,            \* the 'max permutations' figure
    frames,               \* per pass of the gear loops: [none, call, variants],
                          \* the outcome of _permutate_gems and, in call,
                          \* its [sockets, combined_gem_list, new_gems]
    output,               \* the records written to the output file
    processed,
    valid_profiles,
    first_output          \* the output file as it was before the last call

permVars == <<permPc, permError, gear, gearInBag, talents, gems, unique_jewelry,
              parsed_gear, talent_permutations, special_permutations,
              max_nperm, frames, output, processed, valid_profiles,
              first_output>>

\* the variables of the specifications that follow the pipeline's
auxVars == <<splitVars, weaponVars, permVars>>

vars == <<selVars, poolVars, runVars, auxVars>>

SplitIdle ==
    /\ splitPc = "idle"
    /\ splitError = "none"
    /\ splitLines = <<>>
    /\ splitSize = 1
    /\ splitDir = [exists |-> FALSE, files |-> {}]
    /\ splitDirBefore = splitDir
    /\ splitCount = 0

WeaponIdle ==
    /\ weaponPc = "idle"
    /\ wow_class = ""
    /\ mh_id = 0
    /\ oh_id = 0
    /\ weaponResult = "none"

PermIdle ==
    /\ permPc = "idle"
    /\ permError = "none"
    /\ gear = <<>>
    /\ gearInBag = <<>>
    /\ talents = <<>>
    /\ gems = [none |-> TRUE, lists |-> <<>>]
    /\ unique_jewelry = FALSE
    /\ parsed_gear = <<>>
    /\ talent_permutations = <<>>
    /\ special_permutations = <<>>
    /\ max_nperm = 0
    /\ frames = <<>>
    /\ output = <<>>
    /\ processed = 0
    /\ valid_profiles = 0
    /\ first_output = <<>>

AuxIdle == SplitIdle /\ WeaponIdle /\ PermIdle

(***************************************************************************)
(* Helpers on sequences.                                                   *)
(***************************************************************************)
RECURSIVE Reverse(_)
Reverse(s) == IF s = <<>> THEN <<>> ELSE Append(Reverse(Tail(s)), Head(s))

\* the concatenation of the sequences of ss
RECURSIVE Flatten(_)
Flatten(ss) == IF ss = <<>> THEN <<>> ELSE Head(ss) \o Flatten(Tail(ss))

\* s[:n] of Python for a list s and an int n (a negative n counts from the end)
Prefix(s, n) ==
    LET m == IF n >= 0 THEN (IF n < Len(s) THEN n ELSE Len(s))
             ELSE (IF Len(s) + n > 0 THEN Len(s) + n ELSE 0)
    IN  SubSeq(s, 1, m)

\* insertion of e behind every element whose key is <= the key of e
RECURSIVE InsertByMetric(_, _)
InsertByMetric(s, e) ==
    IF s = <<>> THEN <<e>>
    ELSE IF Head(s).metric <= e.metric
         THEN <<Head(s)>> \o InsertByMetric(Tail(s), e)
         ELSE <<e>> \o s

\* sorted(best, key=lambda entry: entry["metric"]): ascending and stable
RECURSIVE SortedByMetric(_)
SortedByMetric(s) ==
    IF s = <<>> THEN <<>>
    ELSE InsertByMetric(SortedByMetric(SubSeq(s, 1, Len(s) - 1)), s[Len(s)])

\* list(reversed(sorted(best, key=...)))
Ranked(s) == Reverse(SortedByMetric(s))

(***************************************************************************)
(* The two filters.                                                        *)
(***************************************************************************)
\* metric_best - metric < sqrt(err^2 + err_best^2) * multiplier / 1.96,
\* for a difference d >= 0 (the list is sorted) and a positive multiplier,
\* with both sides multiplied by 196 and squared
WithinErrorRange(d, err, err_best, mult) ==
    IF d < 0 THEN TRUE
    ELSE (196 * d) * (196 * d) < (err * err + err_best * err_best) * mult * mult

_filter_by_length(metric_results, index) == Prefix(metric_results, index)

\* the result is [error |-> ..., output |-> ...]
_filter_by_target_error(metric_results, mult) ==
    IF Len(metric_results) > 2
    THEN IF metric_results[1].metric_error = 0
         THEN [error |-> "ValueError", output |-> <<>>]
         ELSE [error |-> "none",
               output |-> SelectSeq(metric_results,
                   LAMBDA entry : WithinErrorRange(
                       metric_results[1].metric - entry.metric,
                       entry.metric_error,
                       metric_results[1].metric_error, mult))]
    ELSE [error |-> "none", output |-> metric_results]

(***************************************************************************)
(* The target directory and the batch files written to it.                 *)
(***************************************************************************)
\* a directory is [exists |-> BOOLEAN, files |-> set of files]; a file is
\* [base, num, ext, profiles]: its name is <base><num>.<ext> ('arguments.simc'
\* has num 0) and it holds the profiles named in `profiles`
NoDir == [exists |-> FALSE, files |-> {}]
EmptyDir == [exists |-> TRUE, files |-> {}]
StaleDir == [exists |-> TRUE,
             files |-> {[base |-> "best", num |-> 7, ext |-> "simc", profiles |-> <<9>>]}]

PurgeMutKeep(subfolder) == [exists |-> TRUE, files |-> subfolder.files]

\* _purge_subfolder: the folder exists and is empty afterwards
_purge_subfolder(subfolder) == EmptyDir

\* the chunk length of grab_best
ChunkLength(n, split_optimally, instances, splitting_size) ==
    LET c0 == IF split_optimally THEN (n \div instances) + 1
              ELSE splitting_size
        c1 == IF c0 < 1 THEN 1 ELSE c0
    IN  IF c1 > splitting_size THEN splitting_size ELSE c1

\* the batch files 'best<i>.simc' holding `profiles` in chunks of `chunk`
RECURSIVE BestFiles(_, _, _)
BestFiles(bestprofiles, chunk, count) ==
    IF bestprofiles = <<>> THEN {}
    ELSE IF Len(bestprofiles) <= chunk
         THEN {[base |-> "best", num |-> count, ext |-> "simc",
                profiles |-> bestprofiles]}
         ELSE {[base |-> "best", num |-> count, ext |-> "simc",
                profiles |-> SubSeq(bestprofiles, 1, chunk)]}
              \cup BestFiles(SubSeq(bestprofiles, chunk + 1, Len(bestprofiles)),
                             chunk, count + 1)

\* the profile file `origin`: every profile of the run, by name, in file order
Origin == [i \in 1..MaxResults |-> i]

Names(entries) == {entries[i].name : i \in 1..Len(entries)}

\* no run of the stages: the pool or the selector on its own
RunIdle ==
    /\ runPc = "idle"
    /\ runError = "none"
    /\ mode = 1
    /\ stage = 1
    /\ stages = 1
    /\ startStage = 1
    /\ configured = {}
    /\ profiles = <<>>
    /\ dirs = [s \in 1..MaxStages |-> EmptyDir]
    /\ launched = {}
    /\ failedAt = {}
    /\ derived = {}
    /\ executed = <<>>
    /\ enteredBad = {}

(***************************************************************************)
(* _launch_simc_commands: a ThreadPoolExecutor of num_workers threads, one *)
(* future per command, each future running _worker.                        *)
(***************************************************************************)
NoOutcome == [kind |-> "none", code |-> 0]

PoolIdle ==
    /\ poolPc = "idle"
    /\ commands = <<>>
    /\ is_last_stage = FALSE
    /\ number_of_instances = 1
    /\ console_off = FALSE
    /\ fut = <<>>
    /\ outcome = <<>>
    /\ collected = {}
    /\ launchResult = "none"

\* splitter.py:186-189
NumWorkersMutAlways(last, instances) == instances
NumWorkers(last, instances) == IF last THEN 1 ELSE instances

Running == {i \in 1..Len(fut) : fut[i] = "running"}

\* console output is captured, splitter.py:171 and 177
Captured(maximum, num_workers) == console_off /\ maximum > 1 /\ num_workers > 1

\* _worker for a process that exits with `code`: with captured output and a
\* non-zero code it calls read() on sub_process.stderr, which subprocess.run
\* returns as bytes, so the call raises AttributeError
_worker(code, maximum, num_workers) ==
    IF code # 0 /\ Captured(maximum, num_workers)
    THEN [kind |-> "raised", code |-> code]
    ELSE [kind |-> "returned", code |-> code]

\* Future.cancel(): only a future that has not started is cancelled
Cancel(state) == IF state = "pending" THEN "cancelled" ELSE state

\* executor.submit, splitter.py:197: commands are submitted in order
Submit ==
    /\ poolPc = "submit"
    /\ \E i \in 1..Len(fut) :
          /\ fut[i] = "new"
          /\ \A j \in 1..(i - 1) : fut[j] # "new"
          /\ fut' = [fut EXCEPT ![i] = "pending"]
    /\ UNCHANGED <<poolPc, commands, is_last_stage, number_of_instances,
                   console_off, outcome, collected, launchResult>>
    /\ UNCHANGED <<runVars, selVars, auxVars>>

\* a free worker thread takes the oldest queued command and runs _worker,
\* which starts the external process (subprocess.run, splitter.py:172-174)
WorkerStart ==
    /\ poolPc = "submit"
    /\ Cardinality(Running) < NumWorkers(is_last_stage, number_of_instances)
    /\ \E i \in 1..Len(fut) :
          /\ fut[i] = "pending"
          /\ \A j \in 1..(i - 1) : fut[j] # "pending"
          /\ fut' = [fut EXCEPT ![i] = "running"]
          /\ launched' = launched \cup {[stage |-> stage, file |-> commands[i]]}
    /\ UNCHANGED <<poolPc, commands, is_last_stage, number_of_instances,
                   console_off, outcome, collected, launchResult>>
    /\ UNCHANGED <<runPc, runError, mode, stage, stages, startStage, configured,
                   profiles, dirs, failedAt, derived, executed, enteredBad>>
    /\ UNCHANGED <<selVars, auxVars>>

\* the file named by output=, splitter.py:251
ResultFile(batch) == [batch EXCEPT !.ext = "result"]

\* the external process exits and _worker ends; a process that exits with 0
\* has written its result file, one that fails may or may not have
WorkerExit ==
    /\ poolPc = "submit"
    /\ \E i \in 1..Len(fut), code \in {0, 1}, wrote \in BOOLEAN :
          /\ fut[i] = "running"
          /\ code = 0 => wrote
          /\ fut' = [fut EXCEPT ![i] = "finished"]
          /\ outcome' = [outcome EXCEPT ![i] =
                 _worker(code, Len(commands),
                         NumWorkers(is_last_stage, number_of_instances))]
          /\ dirs' = IF wrote
                     THEN [dirs EXCEPT ![stage].files = @ \cup {ResultFile(commands[i])}]
                     ELSE dirs
          /\ failedAt' = IF code # 0 THEN failedAt \cup {stage} ELSE failedAt
    /\ UNCHANGED <<poolPc, commands, is_last_stage, number_of_instances,
                   console_off, collected, launchResult>>
    /\ UNCHANGED <<runPc, runError, mode, stage, stages, startStage, configured,
                   profiles, launched, derived, executed, enteredBad>>
    /\ UNCHANGED <<selVars, auxVars>>

\* the end of the with block, splitter.py:196-198: the executor's __exit__
\* is shutdown(wait=True), which returns when every submitted command has run
ExitWith ==
    /\ poolPc = "submit"
    /\ \A i \in 1..Len(fut) : fut[i] \in {"finished", "cancelled"}
    /\ poolPc' = "collect"
    /\ UNCHANGED <<commands, is_last_stage, number_of_instances, console_off,
                   fut, outcome, collected, launchResult>>
    /\ UNCHANGED <<runVars, selVars, auxVars>>

\* one round of the as_completed loop, splitter.py:202-214
Collect ==
    /\ poolPc = "collect"
    /\ \E i \in 1..Len(fut) :
          /\ i \notin collected
          /\ fut[i] \in {"finished", "cancelled"}
          /\ IF fut[i] = "finished" /\ outcome[i].kind = "returned"
                /\ outcome[i].code # 0
             THEN /\ fut' = [j \in 1..Len(fut) |-> Cancel(fut[j])]
                  /\ launchResult' = "False"
                  /\ poolPc' = "returned"
                  /\ UNCHANGED collected
             ELSE /\ collected' = collected \cup {i}
                  /\ UNCHANGED <<fut, launchResult, poolPc>>
    /\ UNCHANGED <<commands, is_last_stage, number_of_instances, console_off,
                   outcome>>
    /\ UNCHANGED <<runVars, selVars, auxVars>>

\* splitter.py:216-217
ReturnTrue ==
    /\ poolPc = "collect"
    /\ collected = 1..Len(fut)
    /\ launchResult' = "True"
    /\ poolPc' = "returned"
    /\ UNCHANGED <<commands, is_last_stage, number_of_instances, console_off,
                   fut, outcome, collected>>
    /\ UNCHANGED <<runVars, selVars, auxVars>>

(***************************************************************************)
(* grab_best                                                               *)
(***************************************************************************)
\* the outcome of the filter stage of grab_best, splitter.py:359-364
Filtered(ranked, by, criterium, mult) ==
    IF by = "target_error" THEN _filter_by_target_error(ranked, mult)
    ELSE [error |-> "none", output |-> _filter_by_length(ranked, criterium)]

\* whether grab_best stops at the emptiness check, splitter.py:372
RaisesOnEmptyMutNever(filtered) == FALSE
RaisesOnEmpty(filtered) == Len(filtered) = 0

grab_best ==
    /\ selPc = "start"
    /\ LET ranked == Ranked(parsed)
           res == Filtered(ranked, filter_by, filter_criterium, multiplier)
       IN  /\ best' = ranked
           /\ filterd_best' = res.output
           /\ IF res.error # "none"
              THEN /\ selPc' = "error"
                   /\ selError' = res.error
                   /\ UNCHANGED target_subdir
              ELSE IF RaisesOnEmpty(res.output)
              THEN /\ selPc' = "error"
                   /\ selError' = "RuntimeError"
                   /\ UNCHANGED target_subdir
              ELSE \E split_optimally \in BOOLEAN,
                      instances \in 1..MaxInstances,
                      splitting_size \in 1..MaxSplit :
                     LET chunk == ChunkLength(Len(res.output), split_optimally,
                                              instances, splitting_size)
                         kept == SelectSeq(Origin,
                                     LAMBDA n : n \in Names(res.output))
                         purged == _purge_subfolder(target_subdir)
                     IN  /\ selPc' = "done"
                         /\ selError' = "none"
                         /\ target_subdir' =
                               [purged EXCEPT !.files = @ \cup BestFiles(kept, chunk, 0)]
    /\ UNCHANGED <<parsed, filter_by, filter_criterium, multiplier, target_before>>
    /\ UNCHANGED <<poolVars, runVars, auxVars>>

Entries == [name : {0}, metric : MetricValues, metric_error : ErrorValues]

\* the parsed lists: names are the positions in the profile file
ParsedLists ==
    UNION {{[i \in 1..n |-> [f[i] EXCEPT !.name = i]] : f \in [1..n -> Entries]}
           : n \in 0..MaxResults}

InitSel ==
    /\ selPc = "start"
    /\ selError = "none"
    /\ parsed \in ParsedLists
    /\ filter_by \in FilterKinds
    /\ filter_criterium \in 0..MaxTopN
    /\ multiplier \in Multipliers
    /\ best = <<>>
    /\ filterd_best = <<>>
    /\ target_subdir \in {NoDir, EmptyDir, StaleDir}
    /\ target_before = target_subdir
    /\ PoolIdle
    /\ RunIdle
    /\ AuxIdle

NextSel == grab_best

SpecSel == InitSel /\ [][NextSel]_vars

(***************************************************************************)
(* One stage's pool on its own.                                            *)
(***************************************************************************)
SelIdle ==
    /\ selPc = "done"
    /\ selError = "none"
    /\ parsed = <<>>
    /\ filter_by = "count"
    /\ filter_criterium = 0
    /\ multiplier = 100
    /\ best = <<>>
    /\ filterd_best = <<>>
    /\ target_subdir = NoDir
    /\ target_before = NoDir

BatchNames(n) ==
    [i \in 1..n |-> [base |-> "sim", num |-> i - 1, ext |-> "simc", profiles |-> <<i>>]]

InitLaunch ==
    /\ SelIdle
    /\ RunIdle
    /\ AuxIdle
    /\ poolPc = "submit"
    /\ commands \in {BatchNames(n) : n \in 0..MaxCommands}
    /\ is_last_stage \in BOOLEAN
    /\ number_of_instances \in 1..MaxInstances
    /\ console_off \in BOOLEAN
    /\ fut = [i \in 1..Len(commands) |-> "new"]
    /\ outcome = [i \in 1..Len(commands) |-> NoOutcome]
    /\ collected = {}
    /\ launchResult = "none"

NextLaunch ==
    Submit \/ WorkerStart \/ WorkerExit \/ ExitWith \/ Collect \/ ReturnTrue

SpecLaunch == InitLaunch /\ [][NextLaunch]_vars

(***************************************************************************)
(* The Stage Orchestrator: start_stage, run_static_stage,                  *)
(* run_dynamic_stage, grab_profiles_for_stage and simulate.                *)
(***************************************************************************)
\* the batch files 'sim<i>.simc' split writes for the profile file
RECURSIVE SplitFiles(_, _, _)
SplitFiles(rest, size, outfile_count) ==
    IF rest = <<>> THEN {}
    ELSE IF Len(rest) <= size
         THEN {[base |-> "sim", num |-> outfile_count, ext |-> "simc",
                profiles |-> rest]}
         ELSE {[base |-> "sim", num |-> outfile_count, ext |-> "simc",
                profiles |-> SubSeq(rest, 1, size)]}
              \cup SplitFiles(SubSeq(rest, size + 1, Len(rest)), size,
                              outfile_count + 1)

\* split: the destination folder is purged and holds the batch files
split(inputfile, destination_folder, size) ==
    [_purge_subfolder(destination_folder) EXCEPT
        !.files = @ \cup SplitFiles(inputfile, size, 0)]

\* checkResultFiles, the check of a previous stage's directory: the outcome
\* is "ok" or the exception raised.  Empty result files only log a warning.
checkResultFiles(subdir) ==
    IF ~subdir.exists THEN "FileNotFoundError"
    ELSE IF subdir.files = {} THEN "FileNotFoundError"
    ELSE "ok"

\* the call check_results_file(subdir_previous_stage) of
\* grab_profiles_for_stage: main.py binds no such name (the check is defined
\* as checkResultFiles), so the call raises NameError whatever the directory
\* holds
check_results_file(subdir) == "NameError"

\* grab_profiles_for_stage for a stage >= 2: the outcome of its try block;
\* any exception of the check is re-raised as RuntimeError
CheckPreviousStage(subdir) ==
    IF check_results_file(subdir) = "ok" THEN "ok" ELSE "RuntimeError"

ArgumentsFile == [base |-> "arguments", num |-> 0, ext |-> "simc", profiles |-> <<>>]

\* the files simulate hands to _start_simulation, splitter.py:267-269
FilesToSim(subdir) == {f \in subdir.files : f.ext # "result"}

\* the files _start_simulation builds a command for, splitter.py:247-248
CommandFiles(files_to_sim) == {f \in files_to_sim : f.ext = "simc"}

\* os.listdir returns the files in an arbitrary order
Orderings(S) ==
    {o \in [1..Cardinality(S) -> S] : \A i, j \in 1..Cardinality(S) : i # j => o[i] # o[j]}

HasResults(subdir) ==
    /\ subdir.exists
    /\ \E f \in subdir.files : f.ext = "result" /\ f.profiles # <<>>

\* what grab_best can select from the result files of a directory: the
\* metrics are the simulator's, so any set of the profiles that have a result
Survivors(subdir) ==
    SUBSET UNION {{f.profiles[i] : i \in 1..Len(f.profiles)} :
                  f \in {g \in subdir.files : g.ext = "result"}}

\* simulate and _start_simulation for the stage, up to the start of the pool,
\* with `ds` the stage directories at the call
Simulate(ds) ==
    IF ~ds[stage].exists
    THEN /\ runPc' = "error"
         /\ runError' = "FileNotFoundError"
         /\ dirs' = ds
         /\ UNCHANGED <<poolVars, executed>>
    ELSE IF FilesToSim(ds[stage]) = {}
    THEN /\ runPc' = "error"
         /\ runError' = "ValueError"
         /\ dirs' = ds
         /\ UNCHANGED <<poolVars, executed>>
    ELSE /\ runPc' = "simulating"
         /\ runError' = "none"
         /\ dirs' = [ds EXCEPT ![stage].files = @ \cup {ArgumentsFile}]
         /\ executed' = Append(executed, stage)
         /\ commands' \in Orderings(CommandFiles(FilesToSim(ds[stage])))
         /\ is_last_stage' = (stage = stages)
         /\ fut' = [i \in 1..Len(commands') |-> "new"]
         /\ outcome' = [i \in 1..Len(commands') |-> NoOutcome]
         /\ collected' = {}
         /\ launchResult' = "none"
         /\ poolPc' = "submit"
         /\ UNCHANGED <<number_of_instances, console_off>>

\* the stage is entered without usable results of the previous stage
NotePrevious ==
    enteredBad' = IF stage >= 2 /\ ~HasResults(dirs[stage - 1])
                  THEN enteredBad \cup {stage} ELSE enteredBad

start_stage ==
    /\ runPc = "start"
    /\ IF mode \notin {1, 2}
       THEN runPc' = "error" /\ runError' = "RuntimeError"
       ELSE runPc' = "enter" /\ runError' = "none"
    /\ UNCHANGED <<mode, stage, stages, startStage, configured, profiles, dirs,
                   launched, failedAt, derived, executed, enteredBad>>
    /\ UNCHANGED <<poolVars, selVars, auxVars>>

run_static_stage ==
    /\ runPc = "enter"
    /\ mode = 1
    /\ IF stage > stages
       THEN /\ runPc' = "done"
            /\ UNCHANGED <<runError, dirs, executed, enteredBad, poolVars>>
       ELSE /\ NotePrevious
            /\ IF stage \notin configured
               THEN /\ runPc' = "error"
                    /\ runError' = "ValueError"
                    /\ UNCHANGED <<dirs, executed, poolVars>>
               ELSE Simulate(dirs)
    /\ UNCHANGED <<mode, stage, stages, startStage, configured, profiles,
                   launched, failedAt, derived>>
    /\ UNCHANGED <<selVars, auxVars>>

run_dynamic_stage ==
    /\ runPc = "enter"
    /\ mode = 2
    /\ IF stage > stages
       THEN /\ runPc' = "done"
            /\ UNCHANGED <<runError, dirs, executed, enteredBad, derived, poolVars>>
       ELSE /\ NotePrevious
            /\ IF stage = 1
               THEN \E splitting_size \in 1..MaxSplit :
                      LET ds == [dirs EXCEPT ![1] = split(profiles, dirs[1], splitting_size)]
                      IN  /\ derived' = derived \cup {1}
                          /\ IF stage \notin configured
                             THEN /\ runPc' = "error"
                                  /\ runError' = "ValueError"
                                  /\ dirs' = ds
                                  /\ UNCHANGED <<executed, poolVars>>
                             ELSE Simulate(ds)
               ELSE IF CheckPreviousStage(dirs[stage - 1]) # "ok"
               THEN /\ runPc' = "error"
                    /\ runError' = CheckPreviousStage(dirs[stage - 1])
                    /\ UNCHANGED <<dirs, executed, derived, poolVars>>
               ELSE \E survivors \in Survivors(dirs[stage - 1]),
                       splitting_size \in 1..MaxSplit :
                      IF survivors = {}
                      THEN /\ runPc' = "error"
                           /\ runError' = "RuntimeError"
                           /\ UNCHANGED <<dirs, executed, derived, poolVars>>
                      ELSE LET kept == SelectSeq(profiles, LAMBDA n : n \in survivors)
                               chunk == ChunkLength(Cardinality(survivors),
                                            stage # stages, number_of_instances,
                                            splitting_size)
                               ds == [dirs EXCEPT ![stage] =
                                        [_purge_subfolder(dirs[stage]) EXCEPT
                                            !.files = @ \cup BestFiles(kept, chunk, 0)]]
                           IN  /\ derived' = derived \cup {stage}
                               /\ IF stage \notin configured
                                  THEN /\ runPc' = "error"
                                       /\ runError' = "ValueError"
                                       /\ dirs' = ds
                                       /\ UNCHANGED <<executed, poolVars>>
                                  ELSE Simulate(ds)
    /\ UNCHANGED <<mode, stage, stages, startStage, configured, profiles,
                   launched, failedAt>>
    /\ UNCHANGED <<selVars, auxVars>>

\* simulate returns; its result is not looked at and the next stage is entered,
\* main.py:1107-1108 and 1133-1134
simulate_returns ==
    /\ runPc = "simulating"
    /\ poolPc = "returned"
    /\ poolPc' = "idle"
    /\ runPc' = "enter"
    /\ stage' = stage + 1
    /\ UNCHANGED <<commands, is_last_stage, number_of_instances, console_off,
                   fut, outcome, collected, launchResult>>
    /\ UNCHANGED <<runError, mode, stages, startStage, configured, profiles, dirs,
                   launched, failedAt, derived, executed, enteredBad>>
    /\ UNCHANGED <<selVars, auxVars>>

\* a stage directory as an earlier run may have left it
BatchDir == [exists |-> TRUE,
             files |-> {[base |-> "best", num |-> 0, ext |-> "simc", profiles |-> <<1>>]}]
UsedDir == [exists |-> TRUE,
            files |-> {[base |-> "best", num |-> 0, ext |-> "simc", profiles |-> <<1>>],
                       [base |-> "best", num |-> 0, ext |-> "result", profiles |-> <<1>>],
                       ArgumentsFile}]
InitialDirs == {NoDir, BatchDir, UsedDir}

InitRun ==
    /\ SelIdle
    /\ AuxIdle
    /\ runPc = "start"
    /\ runError = "none"
    /\ mode \in {1, 2, 3}
    /\ stage \in 1..MaxStages
    /\ stages \in 1..MaxStages
    /\ startStage = stage
    /\ configured \in {1..MaxStages, {1}}
    /\ profiles \in {[i \in 1..n |-> i] : n \in 1..MaxProfiles}
    /\ dirs \in [1..MaxStages -> InitialDirs]
    /\ launched = {}
    /\ failedAt = {}
    /\ derived = {}
    /\ executed = <<>>
    /\ enteredBad = {}
    /\ poolPc = "idle"
    /\ commands = <<>>
    /\ is_last_stage = FALSE
    /\ number_of_instances \in 1..MaxInstances
    /\ console_off \in BOOLEAN
    /\ fut = <<>>
    /\ outcome = <<>>
    /\ collected = {}
    /\ launchResult = "none"

NextRun ==
    \/ start_stage
    \/ run_static_stage
    \/ run_dynamic_stage
    \/ simulate_returns
    \/ Submit
    \/ WorkerStart
    \/ WorkerExit
    \/ ExitWith
    \/ Collect
    \/ ReturnTrue

SpecRun == InitRun /\ [][NextRun]_vars

(***************************************************************************)
(* Claims about the Result Selector, checked under SpecSel.                *)
(***************************************************************************)
FilterRan == selPc # "start" /\ filter_by = "target_error"

\* C1: for a ranked list of any length >= 1 whose best entry has a non-zero
\* error, the target_error filter returns the best entry and, of the other
\* entries, exactly those with
\* best.metric - entry.metric < sqrt(entry.err^2 + best.err^2) * multiplier / 1.96.
C1_TargetErrorKeepsExactlyTheBand ==
    (FilterRan /\ Len(best) >= 1 /\ best[1].metric_error # 0) =>
        /\ selPc = "done"
        /\ filterd_best = SelectSeq(best,
               LAMBDA entry :
                   \/ entry.name = best[1].name
                   \/ WithinErrorRange(best[1].metric - entry.metric,
                                       entry.metric_error,
                                       best[1].metric_error, multiplier))

\* C2: whenever the target_error filter is applied to a ranked list of any
\* length >= 1 whose best entry has metric_error zero, it fails with a fatal
\* error instead of returning survivors.
C2_ZeroBestErrorIsFatal ==
    (FilterRan /\ Len(best) >= 1 /\ best[1].metric_error = 0) =>
        (selPc = "error" /\ selError = "ValueError")

\* names are positions in parse order, so i parsed before j iff name i < name j
RankedStable(ranked) ==
    \A i, j \in 1..Len(ranked) :
        i < j => \/ ranked[i].metric > ranked[j].metric
                 \/ /\ ranked[i].metric = ranked[j].metric
                    /\ ranked[i].name < ranked[j].name

\* C3: the ranked list is ordered by metric descending with equal metrics in
\* parse order, and the count filter with parameter k keeps exactly the first
\* min(k, n) entries of it.
C3_StableRankingAndCount ==
    selPc # "start" =>
        /\ Len(best) = Len(parsed)
        /\ RankedStable(best)
        /\ filter_by = "count" =>
              filterd_best = SubSeq(best, 1,
                  IF filter_criterium < Len(best) THEN filter_criterium
                  ELSE Len(best))

\* C9: with either policy, an empty filtered set makes grab_best fail with an
\* error, and the target directory is then as it was: neither purged nor
\* written to.
C9_EmptySurvivorsFailBeforePurge ==
    (selPc # "start" /\ selError # "ValueError" /\ filterd_best = <<>>) =>
        /\ selPc = "error"
        /\ selError = "RuntimeError"
        /\ target_subdir = target_before

\* the count filter empties a non-empty ranking while the target holds a file
C9_Witness ==
    /\ selPc = "error"
    /\ selError = "RuntimeError"
    /\ filter_by = "count"
    /\ Len(best) > 0
    /\ filterd_best = <<>>
    /\ target_subdir = StaleDir

(***************************************************************************)
(* Claims about the worker pool, checked under SpecLaunch.                 *)
(***************************************************************************)
SomeProcessFailed ==
    \E i \in 1..Len(fut) : fut[i] = "finished" /\ outcome[i].code # 0

\* C5: once a simulator process of the stage has exited with a non-zero code,
\* no batch that has not started yet starts its external process.
C5_NoStartAfterFailure ==
    [][SomeProcessFailed =>
          \A i \in 1..Len(fut) :
              fut[i] \in {"new", "pending"} => fut'[i] # "running"]_vars

\* C10: the number of simultaneously running simulator processes never
\* exceeds the configured number of worker instances, and never exceeds 1 on
\* the final stage.
C10_RunningWithinWorkerLimit ==
    /\ Cardinality(Running) <= number_of_instances
    /\ is_last_stage => Cardinality(Running) <= 1

\* the final stage with several instances configured: one process runs while
\* another batch waits
C10_Witness ==
    /\ is_last_stage
    /\ number_of_instances > 1
    /\ Cardinality(Running) = 1
    /\ \E i \in 1..Len(fut) : fut[i] = "pending"

(***************************************************************************)
(* Claims about the Stage Orchestrator, checked under SpecRun.             *)
(***************************************************************************)
\* C4: if a simulator process of stage s returns a non-zero exit code, no
\* batch of any stage > s is launched.  (grab_best is not reached from the
\* stage functions in this model, so the claim's second half, that the Result
\* Selector is not invoked for stage s+1, adds nothing to the formula.)
C4_NoLaunchAfterFailedStage ==
    \A l \in launched : \A s \in failedAt : l.stage <= s

ValidRun ==
    /\ mode \in {1, 2}
    /\ \A s \in 1..stages : s \in configured
    /\ failedAt = {}

\* C6: a run started at stage s with valid configuration and every simulator
\* process exiting zero does not fail, and when it ends the stages s..N have
\* been executed once each in increasing order and no other stage has.
C6_StagesRunInOrderToTheEnd ==
    ValidRun =>
        /\ runPc # "error"
        /\ runPc = "done" =>
              executed = [i \in 1..(IF stages >= startStage
                                    THEN stages - startStage + 1 ELSE 0)
                          |-> startStage + i - 1]

\* C7: every simulator process of a stage runs a batch file that was derived
\* for that stage in this run: by the split of the profile file for stage 1,
\* by the Result Selector for a stage >= 2.
C7_BatchesDerivedBeforeLaunch ==
    \A l \in launched : l.stage \in derived

\* C8: a stage >= 2 entered while the previous stage's result directory is
\* missing, empty or without result files launches no simulator process.
C8_PreviousResultsChecked ==
    \A l \in launched : l.stage \notin enteredBad

\* the other half of C8: with result files present in the previous stage's
\* directory, the check of grab_profiles_for_stage passes
C8_CheckPassesWithResults ==
    (runPc = "error" /\ stage >= 2 /\ stage <= stages /\ mode = 2
     /\ executed = <<>> /\ HasResults(dirs[stage - 1]))
        => runError # "RuntimeError"

\* C11: in every stage one simulator process is launched per batch file and
\* none for any other file of the stage directory: no process has the shared
\* options file arguments.simc as its batch input.
C11_ProcessesOnlyForBatchFiles ==
    \A l \in launched : l.file # ArgumentsFile

(***************************************************************************)
(* splitter.split on its own: the stage-1 split of the profile file.       *)
(***************************************************************************)
MaxSplitProfiles == 3
MaxBodyLines == 2

\* a line of the profile file: class_line says whether it starts with
\* '<wow_class>=', `of` is the profile it was written for and `n` its position
\* in that profile's record
ProfileRecord(p, body) ==
    <<[class_line |-> TRUE, of |-> p, n |-> 0]>>
        \o [i \in 1..body |-> [class_line |-> FALSE, of |-> p, n |-> i]]

\* the profile file for the body lengths b[1], ..., b[Len(b)]
RECURSIVE ProfileFile(_, _)
ProfileFile(b, p) ==
    IF p > Len(b) THEN <<>>
    ELSE ProfileRecord(p, b[p]) \o ProfileFile(b, p + 1)

ProfileFiles ==
    UNION {{ProfileFile(b, 1) : b \in [1..k -> 1..MaxBodyLines]}
           : k \in 0..MaxSplitProfiles}

\* the loop of _parse_profiles_from_file: `current_profile` is the entry being
\* collected and `yielded` the entries yielded so far
RECURSIVE ParseLoop(_, _, _)
ParseLoop(file_pointer, current_profile, yielded) ==
    IF file_pointer = <<>>
    THEN IF Len(current_profile) > 0 THEN Append(yielded, current_profile)
         ELSE yielded
    ELSE IF Head(file_pointer).class_line /\ Len(current_profile) > 0
         THEN ParseLoop(Tail(file_pointer), <<Head(file_pointer)>>,
                        Append(yielded, current_profile))
         ELSE ParseLoop(Tail(file_pointer),
                        Append(current_profile, Head(file_pointer)), yielded)

_parse_profiles_from_file(file_pointer) == ParseLoop(file_pointer, <<>>, <<>>)

\* num_profiles of split: the sum of len(bestprofiles) over the files dumped
RECURSIVE NumProfiles(_, _)
NumProfiles(rest, chunk) ==
    IF rest = <<>> THEN 0
    ELSE IF Len(rest) <= chunk THEN Len(rest)
         ELSE chunk + NumProfiles(SubSeq(rest, chunk + 1, Len(rest)), chunk)

SplitCall ==
    /\ splitPc = "start"
    /\ IF splitSize <= 0
       THEN /\ splitPc' = "error"
            /\ splitError' = "ValueError"
            /\ UNCHANGED <<splitDir, splitCount>>
       ELSE /\ splitPc' = "done"
            /\ splitError' = "none"
            /\ splitDir' = split(_parse_profiles_from_file(splitLines),
                                 splitDir, splitSize)
            /\ splitCount' = NumProfiles(_parse_profiles_from_file(splitLines),
                                         splitSize)
    /\ UNCHANGED <<splitLines, splitSize, splitDirBefore>>
    /\ UNCHANGED <<selVars, poolVars, runVars, weaponVars, permVars>>

InitSplit ==
    /\ SelIdle
    /\ PoolIdle
    /\ RunIdle
    /\ WeaponIdle
    /\ PermIdle
    /\ splitPc = "start"
    /\ splitError = "none"
    /\ splitLines \in ProfileFiles
    /\ splitSize \in -1..MaxSplit
    /\ splitDir \in {NoDir, EmptyDir, StaleDir}
    /\ splitDirBefore = splitDir
    /\ splitCount = 0

NextSplit == SplitCall

SpecSplit == InitSplit /\ [][NextSplit]_vars

\* the batch file numbered k of a directory
BatchFile(subdir, k) == CHOOSE f \in subdir.files : f.num = k

\* the profiles of the batch files k, k+1, ..., count-1, in that order
RECURSIVE BatchesFrom(_, _, _)
BatchesFrom(subdir, k, count) ==
    IF k >= count THEN <<>>
    ELSE BatchFile(subdir, k).profiles \o BatchesFrom(subdir, k + 1, count)

ClassLines(lines) == {i \in 1..Len(lines) : lines[i].class_line}

\* C12: the stage-1 split partitions the profile stream into batches in input
\* order: the destination directory holds only the batch files sim0.simc,
\* sim1.simc, ...; their profiles, taken in file-number order, are the
\* profiles of the input in input order, each once; every batch holds at most
\* `size` profiles and every batch but the last exactly `size`; the returned
\* count is the number of profiles.  For size <= 0 split raises an error and
\* the destination directory is untouched.
C12_SplitPartitionsInOrder ==
    /\ (splitPc \in {"done", "error"} /\ splitSize <= 0) =>
          /\ splitPc = "error"
          /\ splitError = "ValueError"
          /\ splitDir = splitDirBefore
    /\ (splitPc \in {"done", "error"} /\ splitSize > 0) =>
          LET count == Cardinality(splitDir.files)
              every == BatchesFrom(splitDir, 0, count)
          IN  /\ splitPc = "done"
              /\ splitDir.exists
              /\ \A f \in splitDir.files :
                    /\ f.base = "sim" /\ f.ext = "simc"
                    /\ f.num \in 0..(count - 1)
                    /\ Len(f.profiles) <= splitSize
                    /\ f.num < count - 1 => Len(f.profiles) = splitSize
                    /\ Len(f.profiles) >= 1
              /\ \A f, g \in splitDir.files : f.num = g.num => f = g
              /\ Flatten(every) = splitLines
              /\ \A i \in 1..Len(every) :
                    /\ every[i][1].class_line
                    /\ every[i][1].of = i
                    /\ \A j \in 2..Len(every[i]) : ~every[i][j].class_line
              /\ Len(every) = Cardinality(ClassLines(splitLines))
              /\ splitCount = Cardinality(ClassLines(splitLines))

\* three profiles split by two into a directory that held a stale file: one
\* full batch and a shorter last one
C12_Witness ==
    /\ splitPc = "done"
    /\ splitSize = 2
    /\ splitCount = 3
    /\ splitDirBefore = StaleDir
    /\ Cardinality(splitDir.files) = 2

\* a non-positive size with a directory that holds a file
C12_WitnessError ==
    /\ splitPc = "error"
    /\ splitSize <= 0
    /\ splitDirBefore = StaleDir

(***************************************************************************)
(* main.isValidWeaponPermutation on its own: the weapon-legality filter.   *)
(***************************************************************************)
\* the members of WeaponType, main.py:56-65
WeaponType == {"DUMMY", "ONEHAND", "SHIELD", "BOW", "TWOHAND", "OFFHAND_WEAPON",
               "OFFHAND_SPECIAL_WEAPON", "OFFHAND", "GUN"}

\* the table initWeaponData fills: one weapon of each type under the ids
\* 1..8, and the key "-1" for the dummy
weapondata ==
    (1 :> "ONEHAND") @@ (2 :> "SHIELD") @@ (3 :> "BOW") @@ (4 :> "TWOHAND")
    @@ (5 :> "OFFHAND_WEAPON") @@ (6 :> "OFFHAND_SPECIAL_WEAPON")
    @@ (7 :> "OFFHAND") @@ (8 :> "GUN") @@ (-1 :> "DUMMY")

\* the item ids of the candidates: the weapons of the table, the id 0 of an
\* empty slot and the id of an item that is not a weapon
CandidateIds == (DOMAIN weapondata \ {-1}) \cup {0, 99}

Classes == {"hunter", "warrior", "mage"}

IsRangedMutBowOnly(weapon_type) == weapon_type = "BOW"

\* mh_type is WeaponType.BOW or mh_type is WeaponType.GUN
IsRanged(weapon_type) == weapon_type \in {"BOW", "GUN"}

\* the rules of isValidWeaponPermutation in the order of the code; "None" is
\* no member of WeaponType
WeaponRules(class, mh_type, oh_type) ==
    IF IsRanged(mh_type) /\ oh_type = "None" THEN "True"
    ELSE IF class # "hunter" /\ IsRanged(mh_type) THEN "False"
    ELSE IF class # "warrior" /\ oh_type = "TWOHAND" THEN "False"
    ELSE IF mh_type = "SHIELD" \/ mh_type = "OFFHAND" THEN "False"
    ELSE IF class # "warrior" /\ mh_type = "TWOHAND"
            /\ (oh_type = "OFFHAND" \/ oh_type = "SHIELD") THEN "False"
    ELSE "True"

\* weapondata[str(item_id)] raises KeyError for an id the table does not hold
isValidWeaponPermutation(main_hand, off_hand, class) ==
    IF main_hand \notin DOMAIN weapondata \/ off_hand \notin DOMAIN weapondata
    THEN "KeyError"
    ELSE WeaponRules(class, weapondata[main_hand], weapondata[off_hand])

CheckWeapons ==
    /\ weaponPc = "start"
    /\ weaponPc' = "done"
    /\ weaponResult' = isValidWeaponPermutation(mh_id, oh_id, wow_class)
    /\ UNCHANGED <<wow_class, mh_id, oh_id>>
    /\ UNCHANGED <<selVars, poolVars, runVars, splitVars, permVars>>

InitWeapon ==
    /\ SelIdle
    /\ PoolIdle
    /\ RunIdle
    /\ SplitIdle
    /\ PermIdle
    /\ weaponPc = "start"
    /\ wow_class \in Classes
    /\ mh_id \in CandidateIds
    /\ oh_id \in CandidateIds
    /\ weaponResult = "none"

NextWeapon == CheckWeapons

SpecWeapon == InitWeapon /\ [][NextWeapon]_vars

InTable == mh_id \in DOMAIN weapondata /\ oh_id \in DOMAIN weapondata

\* C20: for a main hand and an off hand of known weapon types, the filter
\* accepts (class, main-hand type, off-hand type) exactly when all of these
\* hold: a bow or gun in the main hand only for a hunter; a two-handed weapon
\* in the off hand only for a warrior; a two-handed main hand with a shield or
\* a true off-hand item in the off hand only for a warrior; never a shield or
\* a true off-hand item in the main hand.  So a non-hunter with a bow in the
\* main hand is rejected for every off hand, and two-hander plus shield is
\* accepted for a warrior and rejected for any other class.
C20_WeaponRulesDecideAcceptance ==
    (weaponPc = "done" /\ InTable) =>
        LET mh == weapondata[mh_id]
            oh == weapondata[oh_id]
        IN  /\ weaponResult \in {"True", "False"}
            /\ weaponResult = "True" <=>
                  /\ mh \in {"BOW", "GUN"} => wow_class = "hunter"
                  /\ oh = "TWOHAND" => wow_class = "warrior"
                  /\ (mh = "TWOHAND" /\ oh \in {"SHIELD", "OFFHAND"})
                        => wow_class = "warrior"
                  /\ mh \notin {"SHIELD", "OFFHAND"}
            /\ (mh = "BOW" /\ wow_class # "hunter") => weaponResult = "False"
            /\ (mh = "TWOHAND" /\ oh = "SHIELD") =>
                  (weaponResult = "True" <=> wow_class = "warrior")

\* a warrior with a two-hander and a shield is accepted
C20_Witness ==
    /\ weaponPc = "done"
    /\ wow_class = "warrior"
    /\ InTable
    /\ weapondata[mh_id] = "TWOHAND"
    /\ weapondata[oh_id] = "SHIELD"
    /\ weaponResult = "True"

(***************************************************************************)
(* The Permutation Engine: permutator.Permutator and item.Item.            *)
(***************************************************************************)
MaxRawLen == 3
MaxTalentLen == 3

\* ---- helpers of itertools and of str -------------------------------------
PrependAll(x, tails) == [k \in 1..Len(tails) |-> <<x>> \o tails[k]]

\* the tuples <<o>> \o t for o in options (outer loop) and t in tails
RECURSIVE PrependEach(_, _)
PrependEach(options, tails) ==
    IF options = <<>> THEN <<>>
    ELSE PrependAll(Head(options), tails) \o PrependEach(Tail(options), tails)

\* list(itertools.product(*iterables))
RECURSIVE Product(_)
Product(iterables) ==
    IF iterables = <<>> THEN << <<>> >>
    ELSE PrependEach(Head(iterables), Product(Tail(iterables)))

ProductMutFirstInnermost(iterables) ==
    LET reversed == Product(Reverse(iterables))
    IN  [k \in 1..Len(reversed) |-> Reverse(reversed[k])]

\* list(self._product(*iterables)): the first iterable is the outermost loop
RECURSIVE _product(_)
_product(iterables) ==
    IF Len(iterables) = 0 THEN << <<>> >>
    ELSE PrependEach(iterables[1], _product(Tail(iterables)))

\* itertools.combinations_with_replacement(pool, r), for the elements at the
\* positions i.. of pool
RECURSIVE CombinationsWithReplacementFrom(_, _, _)
CombinationsWithReplacementFrom(pool, r, i) ==
    IF r = 0 THEN << <<>> >>
    ELSE IF i > Len(pool) THEN <<>>
    ELSE PrependAll(pool[i], CombinationsWithReplacementFrom(pool, r - 1, i))
         \o CombinationsWithReplacementFrom(pool, r, i + 1)

combinations_with_replacement(pool, r) == CombinationsWithReplacementFrom(pool, r, 1)

\* itertools.combinations(pool, r), for the elements at the positions i..
RECURSIVE CombinationsFrom(_, _, _)
CombinationsFrom(pool, r, i) ==
    IF r = 0 THEN << <<>> >>
    ELSE IF i > Len(pool) THEN <<>>
    ELSE PrependAll(pool[i], CombinationsFrom(pool, r - 1, i + 1))
         \o CombinationsFrom(pool, r, i + 1)

CombinationsMutSkipFirst(pool, r) == CombinationsFrom(pool, r, 2)

combinations(pool, r) == CombinationsFrom(pool, r, 1)

\* str.split(sep) for a string held as the sequence of its characters
RECURSIVE SplitLoop(_, _, _, _)
SplitLoop(chars, sep, current, found) ==
    IF chars = <<>> THEN Append(found, current)
    ELSE IF Head(chars) = sep
         THEN SplitLoop(Tail(chars), sep, <<>>, Append(found, current))
         ELSE SplitLoop(Tail(chars), sep, Append(current, Head(chars)), found)

StrSplit(chars, sep) == SplitLoop(chars, sep, <<>>, <<>>)

\* the elements of seq at the positions of keep, in order
RECURSIVE Pick(_, _, _)
Pick(seq, keep, i) ==
    IF i > Len(seq) THEN <<>>
    ELSE (IF i \in keep THEN <<seq[i]>> ELSE <<>>) \o Pick(seq, keep, i + 1)

\* ---- item.Item ----------------------------------------------------------
\* an item string is [name, opts]: the text before the first ',' and the
\* name=value parts after it, each [k, v] with v the '/'-separated integers.
\* An Item is the record of its attributes; gem_tuple says whether gem_ids is
\* a tuple (set by _permutate_gems) instead of a list; extra_options is the
\* dict as the sequence of its [name, values] in insertion order.

\* the ",name=value" parts of extra_options, lines 74-76
RECURSIVE ExtraFields(_)
ExtraFields(extra_options) ==
    IF extra_options = <<>> THEN <<>>
    ELSE [i \in 1..Len(Head(extra_options).values) |->
             [key |-> Head(extra_options).name, v |-> Head(extra_options).values[i]]]
         \o ExtraFields(Tail(extra_options))

\* _build_output_str stores the string in the item: "slot=name" and then the
\* ",key=value" parts in the order they are appended
_build_output_str(item) ==
    [item EXCEPT !.output_str =
        [slot |-> item.slot, name |-> item.name,
         fields |->
            <<[key |-> "id", v |-> <<item.item_id>>]>>
            \o (IF Len(item.bonus_ids) > 0
                THEN <<[key |-> "bonus_id", v |-> item.bonus_ids]>> ELSE <<>>)
            \o (IF Len(item.enchant_ids) > 0
                THEN <<[key |-> "enchant_id", v |-> item.enchant_ids]>> ELSE <<>>)
            \o (IF Len(item.gem_ids) > 0
                THEN <<[key |-> "gem_id", v |-> item.gem_ids]>> ELSE <<>>)
            \o (IF item.drop_level > 0
                THEN <<[key |-> "drop_level", v |-> <<item.drop_level>>]>> ELSE <<>>)
            \o ExtraFields(item.extra_options)]]

\* Item(slot): __init__ without an input string
NewItem(slot) ==
    _build_output_str(
        [slot |-> slot, name |-> "", item_id |-> 0, bonus_ids |-> <<>>,
         enchant_ids |-> <<>>, gem_ids |-> <<>>, gem_tuple |-> FALSE,
         drop_level |-> 0, extra_options |-> <<>>,
         output_str |-> [slot |-> slot, name |-> "", fields |-> <<>>]])

WithSlotMutStale(item, slot) == [item EXCEPT !.slot = slot]

\* the setter of Item.slot
WithSlot(item, slot) == _build_output_str([item EXCEPT !.slot = slot])

\* the setter of Item.gem_ids; is_tuple says that value is a tuple
WithGems(item, value, is_tuple) ==
    _build_output_str([item EXCEPT !.gem_ids = value, !.gem_tuple = is_tuple])

\* lines 60-62: the value is appended to the list of the option's name
AddExtra(extra_options, name, value) ==
    IF \E e \in 1..Len(extra_options) : extra_options[e].name = name
    THEN [e \in 1..Len(extra_options) |->
             IF extra_options[e].name = name
             THEN [extra_options[e] EXCEPT !.values = Append(@, value)]
             ELSE extra_options[e]]
    ELSE Append(extra_options, [name |-> name, values |-> <<value>>])

RECURSIVE ParseParts(_, _)
ParseParts(item, parts) ==
    IF parts = <<>> THEN item
    ELSE LET part == Head(parts)
             parsed_item ==
                 CASE part.k = "id" -> [item EXCEPT !.item_id = part.v[1]]
                   [] part.k = "bonus_id" -> [item EXCEPT !.bonus_ids = part.v]
                   [] part.k = "enchant_id" -> [item EXCEPT !.enchant_ids = part.v]
                   [] part.k = "gem_id" -> WithGems(item, part.v, FALSE)
                   [] part.k = "drop_level" -> [item EXCEPT !.drop_level = part.v[1]]
                   [] OTHER -> [item EXCEPT !.extra_options =
                                   AddExtra(@, part.k, part.v)]
         IN  ParseParts(parsed_item, Tail(parts))

parse_input(item, input_string) ==
    ParseParts([item EXCEPT !.name = input_string.name], input_string.opts)

\* Item(slot, input_string) for a fragment of a gear string: the fragment is
\* empty or one item string
Item(slot, fragment) ==
    IF Len(fragment) = 0 THEN NewItem(slot)
    ELSE _build_output_str(parse_input(NewItem(slot), fragment[1].text))

\* __eq__ compares __str__, which is output_str
ItemEq(a, b) == a.output_str = b.output_str

\* __hash__ is the hash of str(self.__dict__): every attribute
ItemHash(item) == item

\* x in seen for Items and for pairs of Items
SameItem(a, b) == ItemHash(a) = ItemHash(b) /\ ItemEq(a, b)
SamePair(p, q) == SameItem(p[1], q[1]) /\ SameItem(p[2], q[2])

\* `x in seen` for the three kinds of element _stable_unique is called with:
\* Items, pairs of Items, and strings or ints
Same(kind, a, b) ==
    IF kind = "item" THEN SameItem(a, b)
    ELSE IF kind = "pair" THEN SamePair(a, b)
    ELSE a = b

\* _stable_unique: an element is dropped when the set holds an element with
\* its hash that is equal to it
StableUniqueBy(seq, kind) ==
    Pick(seq, {i \in 1..Len(seq) :
                  \A j \in 1..(i - 1) : ~Same(kind, seq[j], seq[i])}, 1)

\* _stable_unique for strings and ints
_stable_unique(seq) == StableUniqueBy(seq, "value")

\* ---- staticdata ---------------------------------------------------------
gear_slots ==
    << <<"head">>, <<"neck">>, <<"shoulder", "shoulders">>, <<"back">>,
       <<"chest">>, <<"wrist", "wrists">>, <<"hands">>, <<"waist">>,
       <<"legs">>, <<"feet">>, <<"finger", "finger1", "finger2">>,
       <<"trinket", "trinket1", "trinket2">>, <<"main_hand">>, <<"off_hand">> >>

gem_ids ==
    ("16haste" :> 311865) @@ ("haste" :> 311865) @@ ("16crit" :> 311863)
    @@ ("crit" :> 311863) @@ ("16vers" :> 311859) @@ ("vers" :> 311859)
    @@ ("16mast" :> 311864) @@ ("mast" :> 311864)

\* ---- talents ------------------------------------------------------------
TalentChoicesMutTwo == <<"1", "2">>

\* [str(x) for x in range(1, 4)]
TalentChoices == <<"1", "2", "3">>

\* current_talents of one base string: the choices of each row
TalentRows(base) ==
    [i \in 1..Len(base) |-> IF base[i] = "0" THEN TalentChoices ELSE <<base[i]>>]

_permutate_talents(talents_list) ==
    LET bases == StrSplit(talents_list, "|")
        talent_product ==
            Flatten([b \in 1..Len(bases) |-> Product(TalentRows(bases[b]))])
    IN  _stable_unique(talent_product)

\* ---- gems ---------------------------------------------------------------
\* a string of the --gems argument is the sequence of its gem names and
\* commas; a part between two commas is a key of gem_ids when it is one name
\* of the table
KnownGem(gem) == Len(gem) = 1 /\ gem[1] \in DOMAIN gem_ids

\* _build_gem_list: [error, list]; each string of gem_lists is split on ','
RECURSIVE _build_gem_list(_)
_build_gem_list(gem_lists) ==
    IF gem_lists = <<>> THEN [error |-> "none", list |-> <<>>]
    ELSE LET splitted == StrSplit(Head(gem_lists), ",")
             rest == _build_gem_list(Tail(gem_lists))
         IN  IF \E i \in 1..Len(splitted) : ~KnownGem(splitted[i])
             THEN [error |-> "ValueError", list |-> <<>>]
             ELSE IF rest.error # "none" THEN rest
             ELSE [error |-> "none",
                   list |-> _stable_unique([i \in 1..Len(splitted) |->
                                               gem_ids[splitted[i][1]]]) \o rest.list]

_get_gem_combinations(gems_to_use, num_gem_slots) ==
    IF num_gem_slots <= 0 THEN <<>>
    ELSE combinations_with_replacement(gems_to_use, num_gem_slots)

RECURSIVE SumTo(_, _)
SumTo(counts, n) == IF n = 0 THEN 0 ELSE counts[n] + SumTo(counts, n - 1)

\* the list gems_on_gear when its length is taken at line 45:
\* combined_gem_list is the same list object, so `combined_gem_list += gem_list`
\* has appended gem_list to it
GemsOnGear(items, gem_list) ==
    Flatten([i \in 1..Len(items) |-> items[i].gem_ids]) \o gem_list

PermutateGemsMutKeepGemless(items, gem_list) ==
    [none |-> FALSE, call |-> <<>>, variants |-> <<items>>]

\* _permutate_gems: [none, call, variants]; none stands for the result None
_permutate_gems(items, gem_list) ==
    LET gear_with_gems == [i \in 1..Len(items) |-> Len(items[i].gem_ids)]
        sockets == SumTo(gear_with_gems, Len(items))
        combined_gem_list ==
            _stable_unique(Flatten([i \in 1..Len(items) |-> items[i].gem_ids])
                           \o gem_list)
        new_gems == _get_gem_combinations(combined_gem_list,
                                          Len(GemsOnGear(items, gem_list)))
    IN  IF sockets = 0
        THEN [none |-> TRUE, call |-> <<>>, variants |-> <<>>]
        ELSE [none |-> FALSE,
              call |-> <<[sockets |-> sockets,
                          combined_gem_list |-> combined_gem_list,
                          new_gems |-> new_gems]>>,
              variants |->
                 [k \in 1..Len(new_gems) |->
                    [i \in 1..Len(items) |->
                       WithGems(items[i],
                                SubSeq(new_gems[k],
                                       SumTo(gear_with_gems, i - 1) + 1,
                                       SumTo(gear_with_gems, i)),
                                TRUE)]]]

\* ---- the gear catalog ---------------------------------------------------
\* a gear string is the sequence of its characters: the separator '|' or the
\* text of one item
Bar == [sep |-> TRUE, text |-> [name |-> "", opts |-> <<>>]]
Chr(item_string) == [sep |-> FALSE, text |-> item_string]

RECURSIVE AppendBags(_, _)
AppendBags(current_gear, found) ==
    IF found = <<>> THEN current_gear
    ELSE AppendBags(current_gear \o <<Bar>> \o Head(found), Tail(found))

\* the first characters of the text of an item, by its name; a name of one
\* letter is the whole text
Letters(name) ==
    CASE name \in {"helm_a", "helm_b", "helm_c", "helm_d"} -> <<"h", "e">>
      [] name = "neck_a" -> <<"n", "e">>
      [] name \in {"ring_a", "ring_b", "ring_c", "ring_d", "ring_e"} -> <<"r", "i">>
      [] name \in {"trinket_a", "trinket_b"} -> <<"t", "r">>
      [] name = "sword" -> <<"s", "w">>
      [] name = "shield" -> <<"s", "h">>
      [] name = "bow" -> <<"b", "o">>
      [] name = "tome" -> <<"t", "o">>
      [] OTHER -> <<name>>

\* the characters a gear string begins with: of every item text its first ones
Characters(string) ==
    Flatten([i \in 1..Len(string) |->
        IF string[i].sep THEN <<"|">> ELSE Letters(string[i].text.name)])

\* len(gear[slot]): of the list of raw strings, or, when an earlier call left
\* one string in gear[slot], of that string
Size(value, text) == IF text THEN Len(Characters(value)) ELSE Len(value)

\* gear[slot][i - 1]: a raw string of the list, or a character of the string
Element(value, i, text) ==
    IF ~text THEN value[i]
    ELSE IF Characters(value)[i] = "|" THEN <<Bar>>
    ELSE <<Chr([name |-> Characters(value)[i], opts |-> <<>>])>>

IsPaired(k) == k = "finger" \/ k = "trinket"

\* the slots the loop of lines 214-222 assigns to
Joinable(g, bags) == {k \in DOMAIN g \cap DOMAIN bags : Len(g[k]) > 0}

\* gear[gear_in_bag][1] raises IndexError, line 219
IndexFails(g, bags, text) ==
    \E k \in Joinable(g, bags) : IsPaired(k) /\ Size(g[k], text) < 2

\* one pass of the loop over gear_in_bags, lines 216-222
JoinSlot(g, bags, k, text) ==
    AppendBags(IF IsPaired(k)
               THEN Element(g[k], 1, text) \o <<Bar>> \o Element(g[k], 2, text)
               ELSE Element(g[k], 1, text),
               bags[k])

\* the loop over gear_in_bags, lines 214-222: gear[slot] becomes one string;
\* text says that an earlier call has left strings in gear
ConcatenateBags(g, bags, text) ==
    [k \in DOMAIN g |->
        IF k \in Joinable(g, bags) THEN JoinSlot(g, bags, k, text) ELSE g[k]]

\* the items of lines 227-231 for one gear slot, before the dummy
RawItems(g, gear_slot) ==
    Flatten([e \in 1..Len(gear_slot) |->
        IF gear_slot[e] \in DOMAIN g /\ Len(g[gear_slot[e]]) > 0
        THEN LET sections == StrSplit(g[gear_slot[e]], Bar)
             IN  [f \in 1..Len(sections) |-> Item(gear_slot[1], sections[f])]
        ELSE <<>>])

\* parsed_gear[slot_base_name] after lines 224-234
ParsedGear(g, gear_slot) ==
    IF Len(RawItems(g, gear_slot)) = 0 THEN <<Item(gear_slot[1], <<>>)>>
    ELSE RawItems(g, gear_slot)

CatalogMutNoUnique(g) ==
    [s \in 1..Len(gear_slots) |-> ParsedGear(g, gear_slots[s])]

\* the catalog after lines 242-243, in the order of gear_slots
Catalog(g) ==
    [s \in 1..Len(gear_slots) |->
        StableUniqueBy(ParsedGear(g, gear_slots[s]), "item")]

RECURSIVE MaxGems(_)
MaxGems(items) ==
    IF items = <<>> THEN 0
    ELSE LET m == MaxGems(Tail(items))
         IN  IF Len(Head(items).gem_ids) > m THEN Len(Head(items).gem_ids) ELSE m

\* max_gem_slots, lines 254-261
MaxGemSlots(catalog) ==
    SumTo([s \in 1..Len(catalog) |-> MaxGems(catalog[s])], Len(catalog))

IsSpecial(s) == gear_slots[s][1] = "finger" \/ gear_slots[s][1] = "trinket"

\* normal_permutation_options.values()
NormalOptions(catalog) ==
    LET normal == Pick([s \in 1..Len(gear_slots) |-> s],
                       {s \in 1..Len(gear_slots) : ~IsSpecial(s)}, 1)
    IN  [n \in 1..Len(normal) |-> catalog[normal[n]]]

SlotIndex(name) == CHOOSE s \in 1..Len(gear_slots) : gear_slots[s][1] = name

RemoveEmptyEntriesMutKeep(entries) == entries

\* lines 286-288
RemoveEmptyEntries(entries) ==
    LET remove_empty_entries == SelectSeq(entries, LAMBDA item : item.item_id # 0)
    IN  IF Len(remove_empty_entries) > 0 THEN remove_empty_entries ELSE entries

\* the pairs of one paired slot, lines 281-316
SpecialPermutations(catalog, name, values) ==
    LET entries == RemoveEmptyEntries(catalog[SlotIndex(name)])
        permutations ==
            IF unique_jewelry THEN combinations(entries, Len(values))
            ELSE combinations_with_replacement(entries, Len(values))
        placed == [i \in 1..Len(permutations) |->
                     <<WithSlot(permutations[i][1], values[1]),
                       WithSlot(permutations[i][2], values[2])>>]
        filtered == IF unique_jewelry
                    THEN SelectSeq(placed, LAMBDA p : p[1].item_id # p[2].item_id)
                    ELSE placed
    IN  StableUniqueBy(filtered, "pair")

RECURSIVE ProductOfLengths(_)
ProductOfLengths(lists) ==
    IF lists = <<>> THEN 1 ELSE Len(Head(lists)) * ProductOfLengths(Tail(lists))

\* ---- permutate ----------------------------------------------------------
\* one pass of the innermost gear loop, lines 363-371: the items of the
\* candidate and its gem variants
Frame(combo, no_gems, splitted_gems) ==
    LET entries == combo[1] \o combo[2] \o combo[3]
    IN  IF no_gems
        THEN [none |-> FALSE, call |-> <<>>, variants |-> <<entries>>]
        ELSE _permutate_gems(entries, splitted_gems)

\* the passes of the three gear loops, lines 360-362, in order
Frames(normal, fingers, trinkets, no_gems, splitted_gems) ==
    LET combos == _product(<<normal, fingers, trinkets>>)
    IN  [c \in 1..Len(combos) |-> Frame(combos[c], no_gems, splitted_gems)]

\* self.max_profile_chars: set in __init__ and never again (line 347 assigns
\* a local variable of permutate)
max_profile_chars == 0

\* str(n) for n >= 0, as the sequence of its decimal digits
RECURSIVE Decimal(_)
Decimal(n) == IF n < 10 THEN <<n>> ELSE Decimal(n \div 10) \o <<n % 10>>

RjustMutCut(digits, width) == SubSeq(digits, 1, 1)

\* str.rjust(width, "0"): zeros in front up to the width, nothing cut
rjust(digits, width) ==
    IF Len(digits) >= width THEN digits
    ELSE [i \in 1..(width - Len(digits)) |-> 0] \o digits

\* the records of lines 373-379, in the order they are written; name is the
\* number that _write_to_file puts after the profile name
Written(variants, permuted) ==
    LET records == Flatten([v \in 1..Len(variants) |->
                      [t \in 1..Len(permuted) |->
                          [talents |-> permuted[t], items |-> variants[v]]]])
    IN  [n \in 1..Len(records) |->
            [number |-> n - 1,
             name |-> rjust(Decimal(n - 1), max_profile_chars),
             talents |-> records[n].talents,
             items |-> records[n].items]]

\* gem_perms, lines 338-341
GemPerms(max_gem_slots, splitted_gems) ==
    Len(combinations_with_replacement([i \in 1..max_gem_slots |-> i - 1],
                                      max_gem_slots + Len(splitted_gems)))

\* a call of permutate on the profile object: the first one, or a second one
\* on the object the first call has left
permutate ==
    /\ permPc \in {"start", "done"}
    /\ first_output' = output
    /\ LET text == permPc = "done"
           built == IF gems.none THEN [error |-> "none", list |-> <<>>]
                    ELSE _build_gem_list(gems.lists)
       IN  IF IndexFails(gear, gearInBag, text)
           THEN /\ permPc' = "error"
                /\ permError' = "IndexError"
                /\ \E passed \in SUBSET {k \in Joinable(gear, gearInBag) :
                                           ~IsPaired(k) \/ Size(gear[k], text) >= 2} :
                      gear' = [k \in DOMAIN gear |->
                                  IF k \in passed
                                  THEN JoinSlot(gear, gearInBag, k, text)
                                  ELSE gear[k]]
                /\ UNCHANGED <<gems, parsed_gear, talent_permutations,
                               special_permutations, max_nperm, frames,
                               output, processed, valid_profiles>>
           ELSE IF built.error # "none"
           THEN /\ permPc' = "error"
                /\ permError' = built.error
                /\ gear' = ConcatenateBags(gear, gearInBag, text)
                /\ UNCHANGED <<gems, parsed_gear, talent_permutations,
                               special_permutations, max_nperm, frames,
                               output, processed, valid_profiles>>
           ELSE /\ permPc' = IF text THEN "rerun" ELSE "done"
                /\ gear' = ConcatenateBags(gear, gearInBag, text)
                /\ permError' = "none"
                /\ parsed_gear' = Catalog(gear')
                /\ talent_permutations' = _permutate_talents(talents)
                /\ gems' = IF gems.none \/ MaxGemSlots(parsed_gear') = 0
                           THEN [gems EXCEPT !.none = TRUE] ELSE gems
                /\ special_permutations' =
                      [finger |-> SpecialPermutations(parsed_gear', "finger",
                                                      <<"finger1", "finger2">>),
                       trinket |-> SpecialPermutations(parsed_gear', "trinket",
                                                       <<"trinket1", "trinket2">>)]
                /\ max_nperm' =
                      ProductOfLengths(NormalOptions(parsed_gear'))
                      * Len(special_permutations'.finger)
                      * Len(special_permutations'.trinket)
                      * Len(talent_permutations')
                      * (IF gems'.none THEN 1
                         ELSE GemPerms(MaxGemSlots(parsed_gear'), built.list))
                /\ frames' = Frames(_product(NormalOptions(parsed_gear')),
                                    special_permutations'.finger,
                                    special_permutations'.trinket,
                                    gems'.none, built.list)
                /\ output' = Written(
                      Flatten([c \in 1..Len(frames') |-> frames'[c].variants]),
                      talent_permutations')
                /\ processed' = Len(output')
                /\ valid_profiles' = Len(output')
    /\ UNCHANGED <<gearInBag, talents, unique_jewelry>>
    /\ UNCHANGED <<selVars, poolVars, runVars, splitVars, weaponVars>>

\* ---- the inputs ---------------------------------------------------------
ItemString(name, id, gem_id) ==
    [name |-> name,
     opts |-> <<[k |-> "id", v |-> <<id>>]>>
              \o (IF gem_id = <<>> THEN <<>> ELSE <<[k |-> "gem_id", v |-> gem_id]>>)]

\* the item strings the inputs are made of; ring_a_bonus is the ring 31 with
\* another bonus id, ring_c and ring_d give a name and no id
ItemStrings ==
    [helm_a |-> ItemString("helm_a", 11, <<>>),
     helm_b |-> ItemString("helm_b", 12, <<>>),
     helm_c |-> ItemString("helm_c", 13, <<gem_ids["haste"]>>),
     helm_d |-> ItemString("helm_d", 14, <<gem_ids["haste"], gem_ids["haste"]>>),
     neck_a |-> ItemString("neck_a", 21, <<gem_ids["crit"]>>),
     ring_a |-> ItemString("ring_a", 31, <<>>),
     ring_b |-> ItemString("ring_b", 32, <<>>),
     ring_a_bonus |-> [name |-> "ring_a",
                       opts |-> <<[k |-> "id", v |-> <<31>>],
                                  [k |-> "bonus_id", v |-> <<7>>]>>],
     ring_c |-> [name |-> "ring_c", opts |-> <<>>],
     ring_d |-> [name |-> "ring_d", opts |-> <<>>],
     trinket_a |-> ItemString("trinket_a", 41, <<>>),
     trinket_b |-> ItemString("trinket_b", 42, <<>>),
     sword |-> ItemString("sword", 1, <<>>),
     shield |-> ItemString("shield", 2, <<>>),
     bow |-> ItemString("bow", 3, <<>>),
     tome |-> ItemString("tome", 7, <<>>),
     ring_e |-> [name |-> "ring_e",
                 opts |-> <<[k |-> "id", v |-> <<33>>],
                            [k |-> "stat", v |-> <<1>>],
                            [k |-> "drop_level", v |-> <<5>>],
                            [k |-> "ilevel", v |-> <<2>>],
                            [k |-> "enchant_id", v |-> <<9>>],
                            [k |-> "stat", v |-> <<3>>]>>]]

SlotNames == {gear_slots[s][1] : s \in 1..Len(gear_slots)}
NoGear == [k \in SlotNames |-> <<>>]
NoGems == [none |-> TRUE, lists |-> <<>>]

SeqsUpTo(S, n) == UNION {[1..m -> S] : m \in 0..n}

\* gear strings of up to MaxRawLen characters: no two item texts without a
\* separator between them
RawStrings ==
    {r \in SeqsUpTo({Bar, Chr(ItemStrings.helm_a), Chr(ItemStrings.helm_b)}, MaxRawLen) :
        \A i \in 1..(Len(r) - 1) : r[i].sep \/ r[i + 1].sep}

RingStrings == {<<>>, <<Chr(ItemStrings.ring_a)>>, <<Chr(ItemStrings.ring_b)>>, <<Chr(ItemStrings.ring_a_bonus)>>,
                <<Chr(ItemStrings.ring_c)>>, <<Chr(ItemStrings.ring_d)>>,
                <<Chr(ItemStrings.ring_e)>>}

TalentChars == {"0", "1", "2", "3", "x", "|"}
TalentStrings ==
    SeqsUpTo(TalentChars, MaxTalentLen)
        \cup {<<"0", "1", "2", "0">>,
              <<"1", "1", "2", "0", "|", "2", "1", "2", "1">>}

GemArguments ==
    {NoGems,
     [none |-> FALSE, lists |-> << <<"crit">> >>],
     [none |-> FALSE, lists |-> << <<"haste", ",", "vers">> >>],
     [none |-> FALSE, lists |-> << <<"haste", ",", "16haste">>, <<"haste">> >>],
     [none |-> FALSE, lists |-> << <<"crit", ",", "speed">> >>]}

\* the equipped head as raw string, with or without an item in the bag
InitCatalog ==
    /\ \E raw \in RawStrings : gear = [NoGear EXCEPT !["head"] = <<raw>>]
    /\ \E bag \in {<<>>, << <<Chr(ItemStrings.helm_b)>> >>} :
          gearInBag = [NoGear EXCEPT !["head"] = bag]
    /\ talents = <<"1">>
    /\ gems = NoGems
    /\ unique_jewelry = FALSE

\* rings: none, or the two equipped ones and at most one in the bag
InitPairs ==
    /\ \E fingers \in {<<>>} \cup (RingStrings \X RingStrings),
          trinkets \in {<<>>, << <<Chr(ItemStrings.trinket_a)>>, <<Chr(ItemStrings.trinket_b)>> >>} :
          gear = [NoGear EXCEPT !["finger"] = fingers, !["trinket"] = trinkets]
    /\ \E bag \in {<<>>} \cup {<<r>> : r \in RingStrings \ {<<>>}} :
          gearInBag = [NoGear EXCEPT !["finger"] = bag]
    /\ talents = <<"1">>
    /\ gems = NoGems
    /\ unique_jewelry \in BOOLEAN

\* gems on the head and the neck and the --gems argument
InitGems ==
    /\ \E head \in {<<>>, << <<Chr(ItemStrings.helm_a)>> >>, << <<Chr(ItemStrings.helm_c)>> >>,
                    << <<Chr(ItemStrings.helm_d)>> >>},
          neck \in {<<>>, << <<Chr(ItemStrings.neck_a)>> >>} :
          gear = [NoGear EXCEPT !["head"] = head, !["neck"] = neck]
    /\ \E bag \in {<<>>, << <<Chr(ItemStrings.helm_a)>> >>} :
          gearInBag = [NoGear EXCEPT !["head"] = bag]
    /\ talents \in {<<"1">>, <<"0">>}
    /\ gems \in GemArguments
    /\ unique_jewelry = FALSE

InitTalents ==
    /\ gear = NoGear
    /\ gearInBag = NoGear
    /\ talents \in TalentStrings
    /\ gems = NoGems
    /\ unique_jewelry = FALSE

\* the two hands hold weapons of the table weapondata (the ids 1, 2, 3 and 7
\* are a one-handed weapon, a shield, a bow and a true off-hand item), for a
\* player of each class
InitHands ==
    /\ \E main \in {<<>>, << <<Chr(ItemStrings.sword)>> >>,
                    << <<Chr(ItemStrings.bow)>> >>},
          off \in {<<>>, << <<Chr(ItemStrings.shield)>> >>,
                   << <<Chr(ItemStrings.tome)>> >>} :
          gear = [NoGear EXCEPT !["main_hand"] = main, !["off_hand"] = off]
    /\ \E bag \in {<<>>, << <<Chr(ItemStrings.bow)>> >>},
          off_bag \in {<<>>, << <<Chr(ItemStrings.tome)>> >>} :
          gearInBag = [NoGear EXCEPT !["main_hand"] = bag, !["off_hand"] = off_bag]
    /\ talents = <<"1">>
    /\ gems = NoGems
    /\ unique_jewelry = FALSE
    /\ wow_class \in Classes

InitPerm ==
    /\ SelIdle
    /\ PoolIdle
    /\ RunIdle
    /\ SplitIdle
    /\ weaponPc = "idle"
    /\ mh_id = 0
    /\ oh_id = 0
    /\ weaponResult = "none"
    /\ permPc = "start"
    /\ permError = "none"
    /\ \/ (InitCatalog \/ InitPairs \/ InitGems \/ InitTalents) /\ wow_class = "mage"
       \/ InitHands
    /\ parsed_gear = <<>>
    /\ talent_permutations = <<>>
    /\ special_permutations = <<>>
    /\ max_nperm = 0
    /\ frames = <<>>
    /\ output = <<>>
    /\ processed = 0
    /\ valid_profiles = 0
    /\ first_output = <<>>

NextPerm == permutate

SpecPerm == InitPerm /\ [][NextPerm]_vars

(***************************************************************************)
(* Claims about the Permutation Engine, checked under SpecPerm.            *)
(***************************************************************************)
PermDone == permPc = "done"

\* the calls of _permutate_gems that found gems on the gear
GemCalls == {c \in 1..Len(frames) : Len(frames[c].call) > 0}

\* C13: the Gem Permutator computes the combinations with replacement of the
\* stably-deduplicated union of the equipped and the requested gem ids, of
\* size equal to the total number of gem sockets of the items, and yields one
\* variant per combination; for the equipped gems [A, A, B] and the requested
\* [A, C] the pool is [A, B, C] and there are C(3+3-1, 3) = 10 assignments.
C13_GemCombinationsOfSocketSize ==
    PermDone =>
        \A c \in GemCalls :
            LET call == frames[c].call[1]
            IN  /\ \A k \in 1..Len(call.new_gems) :
                      Len(call.new_gems[k]) = call.sockets
                /\ Len(frames[c].variants) = Len(call.new_gems)
                /\ (call.sockets = 3
                    /\ call.combined_gem_list =
                          <<gem_ids["haste"], gem_ids["crit"], gem_ids["vers"]>>)
                      => Len(frames[c].variants) = 10

\* C14: the 'max permutations' figure is the product of the option counts of
\* the normal slots, the ring pair count, the trinket pair count, the number
\* of gem variants generated per gear combination and the number of talent
\* strings; no candidate is rejected, so it is the number of candidates
\* processed and written when the run completes.
C14_MaxPermutationsIsTheCount ==
    PermDone =>
        /\ max_nperm = processed
        /\ processed = Len(output)
        /\ \A c \in 1..Len(frames) :
              max_nperm = ProductOfLengths(NormalOptions(parsed_gear))
                          * Len(special_permutations.finger)
                          * Len(special_permutations.trinket)
                          * Len(frames[c].variants)
                          * Len(talent_permutations)

\* the strings a base string stands for: each row '0' is one of 1, 2, 3
RECURSIVE Expansion(_)
Expansion(base) ==
    IF base = <<>> THEN {<<>>}
    ELSE {<<ch>> \o rest :
            ch \in (IF Head(base) = "0" THEN {"1", "2", "3"} ELSE {Head(base)}),
            rest \in Expansion(Tail(base))}

Bases == StrSplit(talents, "|")

\* the first base string whose expansion holds the talent string
FirstBase(str) ==
    CHOOSE b \in 1..Len(Bases) :
        /\ str \in Expansion(Bases[b])
        /\ \A a \in 1..(b - 1) : str \notin Expansion(Bases[a])

Row(ch) == CASE ch = "1" -> 1 [] ch = "2" -> 2 [] ch = "3" -> 3 [] OTHER -> 0

\* s comes before t in the product of the rows of one base string
Before(s, t) ==
    \E i \in 1..Len(s) :
        /\ Row(s[i]) < Row(t[i])
        /\ \A j \in 1..(i - 1) : s[j] = t[j]

\* C15 as stated: for "0120" the Talent Permutator returns exactly the three
\* strings 1120, 2120, 3120.
C15_ExampleHasThreeStrings ==
    (PermDone /\ talents = <<"0", "1", "2", "0">>) =>
        talent_permutations = << <<"1", "1", "2", "0">>, <<"2", "1", "2", "0">>,
                                 <<"3", "1", "2", "0">> >>

\* C15, amended: the Talent Permutator returns the union of the expansions of
\* the base strings (every row '0' of a base string replaced by 1, 2 or 3),
\* without duplicates and in first-seen order; for "0120", whose first and
\* last rows are free, these are the nine strings 1121, 1122, 1123, 2121, ...,
\* 3123, and for "1120|2121" the four strings 1121, 1122, 1123, 2121.
C15_TalentExpansion ==
    PermDone =>
        LET r == talent_permutations
        IN  /\ {r[i] : i \in 1..Len(r)}
                  = UNION {Expansion(Bases[b]) : b \in 1..Len(Bases)}
            /\ \A i, j \in 1..Len(r) : i < j =>
                  /\ r[i] # r[j]
                  /\ FirstBase(r[i]) <= FirstBase(r[j])
                  /\ FirstBase(r[i]) = FirstBase(r[j]) => Before(r[i], r[j])
            /\ talents = <<"0", "1", "2", "0">> =>
                  r = [n \in 1..9 |->
                         <<TalentChoices[((n - 1) \div 3) + 1], "1", "2",
                           TalentChoices[((n - 1) % 3) + 1]>>]
            /\ talents = <<"1", "1", "2", "0", "|", "2", "1", "2", "1">> =>
                  r = << <<"1", "1", "2", "1">>, <<"1", "1", "2", "2">>,
                         <<"1", "1", "2", "3">>, <<"2", "1", "2", "1">> >>

\* the two base strings of "1120|2121" give four talent strings
C15_Witness ==
    /\ PermDone
    /\ talents = <<"1", "1", "2", "0", "|", "2", "1", "2", "1">>
    /\ Len(talent_permutations) = 4

Digits == {"0", "1", "2", "3"}

MalformedTalents ==
    \E b \in 1..Len(Bases) : \E i \in 1..Len(Bases[b]) : Bases[b][i] \notin Digits

UnknownGem ==
    /\ ~gems.none
    /\ \E l \in 1..Len(gems.lists) : \E i \in 1..Len(gems.lists[l]) :
          gems.lists[l][i] \notin (DOMAIN gem_ids \cup {","})

\* C16: the Permutation Engine fails by raising, before any profile record is
\* written, when the gem vocabulary holds an unknown gem name or a talent base
\* string holds a character that is no digit; a malformed talent string is
\* never expanded into output records.
C16_MalformedInputRaises ==
    (permPc \in {"done", "error"} /\ (UnknownGem \/ MalformedTalents)) =>
        /\ permPc = "error"
        /\ output = <<>>

\* the position of the first item of seq that is equal to item
FirstOf(seq, item) == CHOOSE i \in 1..Len(seq) :
    /\ ItemEq(seq[i], item)
    /\ \A j \in 1..(i - 1) : ~ItemEq(seq[j], item)

\* C17: after the Gear Catalog Builder ran, every canonical slot has a
\* non-empty option set with no two equal items, in first-seen order: the
\* options are the items built for the slot, each once, ordered by their first
\* occurrence; a slot with no items has exactly one dummy item with item_id 0.
C17_CatalogNonEmptyUniqueOrdered ==
    PermDone =>
        \A s \in 1..Len(gear_slots) :
            LET options == parsed_gear[s]
                built == ParsedGear(gear, gear_slots[s])
            IN  /\ Len(options) >= 1
                /\ \A i, j \in 1..Len(options) :
                      i < j => /\ ~ItemEq(options[i], options[j])
                               /\ FirstOf(built, options[i]) < FirstOf(built, options[j])
                /\ \A i \in 1..Len(options) :
                      \E k \in 1..Len(built) : built[k] = options[i]
                /\ \A k \in 1..Len(built) :
                      \E i \in 1..Len(options) : ItemEq(options[i], built[k])
                /\ (\A e \in 1..Len(gear_slots[s]) :
                       gear_slots[s][e] \in DOMAIN gear => Len(gear[gear_slots[s][e]]) = 0)
                      => /\ Len(options) = 1
                         /\ options[1].item_id = 0
                         /\ options[1] = NewItem(gear_slots[s][1])

\* the head was given the same item twice and the neck nothing
C17_Witness ==
    /\ PermDone
    /\ Len(ParsedGear(gear, gear_slots[1])) > Len(parsed_gear[1])
    /\ Len(parsed_gear[1]) >= 2
    /\ parsed_gear[2] = <<NewItem("neck")>>

\* the non-empty sections of the gear strings of a slot
Sections(gear_slot) ==
    Flatten([e \in 1..Len(gear_slot) |->
        IF gear_slot[e] \in DOMAIN gear
        THEN SelectSeq(StrSplit(gear[gear_slot[e]], Bar), LAMBDA f : Len(f) > 0)
        ELSE <<>>])

\* C18: for each slot the Gear Catalog Builder splits the raw string on '|'
\* and builds one Item per non-empty fragment only: an empty fragment, as in
\* "a||b" or after a trailing '|', adds no item to the option set of the slot.
C18_EmptyFragmentAddsNoItem ==
    PermDone =>
        \A s \in 1..Len(gear_slots) :
            Len(Sections(gear_slots[s])) > 0 =>
                \A i \in 1..Len(parsed_gear[s]) :
                    \E f \in 1..Len(Sections(gear_slots[s])) :
                        parsed_gear[s][i] = Item(gear_slots[s][1], Sections(gear_slots[s])[f])

PairedSlots == {<<"finger", <<"finger1", "finger2">> >>,
                <<"trinket", <<"trinket1", "trinket2">> >>}

\* the items that occur in the pairs of a paired slot, under the slot's name
PairItems(name) ==
    {WithSlot(special_permutations[name][p][i], name) :
        p \in 1..Len(special_permutations[name]), i \in {1, 2}}

AllZero(entries) == \A i \in 1..Len(entries) : entries[i].item_id = 0

C19_WitnessDropped ==
    /\ PermDone
    /\ unique_jewelry
    /\ \E i \in 1..Len(parsed_gear[SlotIndex("finger")]) :
          parsed_gear[SlotIndex("finger")][i].item_id = 0
    /\ Len(special_permutations.finger) = 1

\* C21: a main-hand or off-hand item whose id has no entry in the weapon table
\* (a non-weapon, or the dummy with the id 0) is exempt from the rules: the
\* filter returns a verdict without failing, and a tuple whose two items are
\* both outside the table is accepted.
C21_NonWeaponsAreExempt ==
    (weaponPc = "done" /\ ~InTable) =>
        /\ weaponResult \in {"True", "False"}
        /\ (mh_id \notin DOMAIN weapondata /\ oh_id \notin DOMAIN weapondata)
              => weaponResult = "True"

\* the item of a written record in the given slot
ItemIn(items, slot) == items[CHOOSE i \in 1..Len(items) : items[i].slot = slot]

\* the verdict of the weapon-legality filter on the normal tuple of a record
Verdict(record) ==
    isValidWeaponPermutation(ItemIn(record.items, "main_hand").item_id,
                             ItemIn(record.items, "off_hand").item_id, wow_class)

\* C22: every record the Permutation Engine writes belongs to a normal tuple
\* that passed the weapon-legality filter: a tuple the filter rejects (a
\* non-hunter with a bow in the main hand) contributes no record.
C22_NoRecordOfARejectedTuple ==
    PermDone => \A n \in 1..Len(output) : Verdict(output[n]) # "False"

\* C23: running the Permutation Engine twice on unchanged inputs, here two
\* consecutive runs on the same profile object, writes the same output file:
\* after the second run the file holds the records it held after the first.
C23_SecondRunWritesTheSameFile ==
    permPc = "rerun" => output = first_output

\* the Items a run has reached: the options of the catalog (parsed), the items
\* of the pairs (slot reassigned) and the items of the records (gems
\* reassigned when gem permutation is active)
ReachedItems ==
    UNION {{parsed_gear[s][i] : i \in 1..Len(parsed_gear[s])} :
                   s \in DOMAIN parsed_gear}
    \cup UNION {{pair[i] : i \in {1, 2}} :
                   pair \in UNION {{special_permutations[name][p] :
                                       p \in 1..Len(special_permutations[name])} :
                                   name \in DOMAIN special_permutations}}
    \cup UNION {{output[n].items[i] : i \in 1..Len(output[n].items)} :
                   n \in 1..Len(output)}

\* the canonical encoding of an Item: the string built from its attributes
Encoding(item) == _build_output_str(item).output_str

\* C25: two Items are equal if and only if their canonical encodings are
\* equal, and any two equal Items have equal hashes, so that stable-unique
\* deduplication treats them as one set member; for items reached by parsing,
\* by slot reassignment and by gem reassignment (gem ids as a tuple slice
\* against a parsed list included).
C25_EqualItemsHaveEqualHashes ==
    PermDone =>
        \A a, b \in ReachedItems :
            /\ ItemEq(a, b) <=> Encoding(a) = Encoding(b)
            /\ ItemEq(a, b) => /\ ItemHash(a) = ItemHash(b)
                               /\ SameItem(a, b)

\* the Items of the state after a first or a second run
PermRan == permPc \in {"done", "rerun"}

\* the position of a part of the encoding in the fixed order; extras are last
Rank(key) ==
    CASE key = "id" -> 1 [] key = "bonus_id" -> 2 [] key = "enchant_id" -> 3
      [] key = "gem_id" -> 4 [] key = "drop_level" -> 5 [] OTHER -> 6

\* the encoding has the part key=value
HasField(encoding, key, value) ==
    \E f \in 1..Len(encoding.fields) :
        encoding.fields[f].key = key /\ encoding.fields[f].v = value

HasKey(encoding, key) ==
    \E f \in 1..Len(encoding.fields) : encoding.fields[f].key = key

\* C26: after construction and after any sequence of slot and gem_ids
\* assignments the stored canonical encoding of an Item is the encoding of its
\* current attributes: slot and name, then id, bonus_id, enchant_id, gem_id,
\* drop_level and the extra options in this order, an optional part being
\* left out when it is empty or zero.
C26_StoredEncodingIsCurrent ==
    PermRan =>
        \A item \in ReachedItems :
            LET encoding == item.output_str
            IN  /\ encoding = Encoding(item)
                /\ encoding.slot = item.slot
                /\ encoding.name = item.name
                /\ HasField(encoding, "id", <<item.item_id>>)
                /\ IF Len(item.bonus_ids) = 0 THEN ~HasKey(encoding, "bonus_id")
                   ELSE HasField(encoding, "bonus_id", item.bonus_ids)
                /\ IF Len(item.enchant_ids) = 0 THEN ~HasKey(encoding, "enchant_id")
                   ELSE HasField(encoding, "enchant_id", item.enchant_ids)
                /\ IF Len(item.gem_ids) = 0 THEN ~HasKey(encoding, "gem_id")
                   ELSE HasField(encoding, "gem_id", item.gem_ids)
                /\ IF item.drop_level = 0 THEN ~HasKey(encoding, "drop_level")
                   ELSE HasField(encoding, "drop_level", <<item.drop_level>>)
                /\ \A e \in 1..Len(item.extra_options) :
                      \A i \in 1..Len(item.extra_options[e].values) :
                          HasField(encoding, item.extra_options[e].name,
                                   item.extra_options[e].values[i])
                /\ \A f, g \in 1..Len(encoding.fields) :
                      f < g => Rank(encoding.fields[f].key)
                                  <= Rank(encoding.fields[g].key)

\* a run with gem permutation: an item of a record got its gems reassigned,
\* and the items of the ring pairs got their slot reassigned
C26_Witness ==
    /\ PermDone
    /\ \E item \in ReachedItems : item.gem_tuple /\ Len(item.gem_ids) > 0
    /\ \E item \in ReachedItems : item.slot = "finger2"

\* a ring with a drop level, an enchantment and extra options was paired
C26_WitnessExtras ==
    /\ PermDone
    /\ \E item \in ReachedItems :
          /\ item.slot = "finger1"
          /\ Len(item.extra_options) = 2
          /\ item.drop_level > 0
          /\ Len(item.output_str.fields) = 6

\* the number of tuples of the lists after position s
RECURSIVE Radix(_, _)
Radix(lists, s) ==
    IF s >= Len(lists) THEN 1 ELSE Len(lists[s + 1]) * Radix(lists, s + 1)

\* the i-th tuple of the Cartesian product, the first list outermost
TupleAt(lists, i) ==
    [s \in 1..Len(lists) |->
        lists[s][(((i - 1) \div Radix(lists, s)) % Len(lists[s])) + 1]]

\* the gear of the c-th pass of the loops: normal tuple, ring pair, trinket pair
EntriesAt(c) ==
    LET normal == NormalOptions(parsed_gear)
        F == Len(special_permutations.finger)
        T == Len(special_permutations.trinket)
    IN  TupleAt(normal, (c - 1) \div (F * T) + 1)
        \o special_permutations.finger[(((c - 1) \div T) % F) + 1]
        \o special_permutations.trinket[((c - 1) % T) + 1]

\* (pass, gem variant, talent string) of every record to write
RecordKeys ==
    UNION {{<<c, v, t>> : v \in 1..Len(frames[c].variants),
                          t \in 1..Len(talent_permutations)} :
              c \in 1..Len(frames)}

LexLess(x, y) ==
    \/ x[1] < y[1]
    \/ x[1] = y[1] /\ x[2] < y[2]
    \/ x[1] = y[1] /\ x[2] = y[2] /\ x[3] < y[3]

\* the positions of the gems of a combination in the combined gem list
Positions(combination, combined_gem_list) ==
    [g \in 1..Len(combination) |->
        CHOOSE q \in 1..Len(combined_gem_list) :
            combined_gem_list[q] = combination[g]]

\* C24: records are written in lexicographic order of (normal tuple, ring
\* pair, trinket pair, gem variant, talent string): the normal tuples in the
\* order of the Cartesian product of the per-slot option sequences with the
\* first slot outermost, then ring pairs and trinket pairs in generation
\* order, then gem variants in combination order, then talent strings in
\* first-seen order; the product generator yields exactly the tuples of the
\* Cartesian product, each once, in that order.
C24_RecordsInLexicographicOrder ==
    PermDone =>
        LET normal == NormalOptions(parsed_gear)
            N == ProductOfLengths(normal)
            F == Len(special_permutations.finger)
            T == Len(special_permutations.trinket)
            SeqLess(a, b) ==
                \E i \in 1..Len(a) :
                    a[i] < b[i] /\ \A j \in 1..(i - 1) : a[j] = b[j]
        IN  /\ _product(normal) = [i \in 1..N |-> TupleAt(normal, i)]
            /\ Len(frames) = N * F * T
            /\ \A c \in 1..Len(frames) :
                  IF gems.none
                  THEN frames[c].variants = <<EntriesAt(c)>>
                  ELSE \A v \in 1..Len(frames[c].variants) :
                          LET variant == frames[c].variants[v]
                              call == frames[c].call[1]
                          IN  /\ Len(variant) = Len(EntriesAt(c))
                              /\ \A i \in 1..Len(variant) :
                                    WithGems(variant[i], EntriesAt(c)[i].gem_ids, FALSE)
                                       = EntriesAt(c)[i]
                              /\ Flatten([i \in 1..Len(variant) |-> variant[i].gem_ids])
                                    = SubSeq(call.new_gems[v], 1, call.sockets)
                              /\ \A w \in 1..(v - 1) :
                                    SeqLess(Positions(call.new_gems[w],
                                                      call.combined_gem_list),
                                            Positions(call.new_gems[v],
                                                      call.combined_gem_list))
            /\ Len(output) = Cardinality(RecordKeys)
            /\ \A n \in 1..Len(output) :
                  \E key \in RecordKeys :
                      /\ output[n].items = frames[key[1]].variants[key[2]]
                      /\ output[n].talents = talent_permutations[key[3]]
                      /\ n = 1 + Cardinality({x \in RecordKeys : LexLess(x, key)})

\* two weapons for the main hand and two items for the off hand: four normal
\* tuples, the off hand changing fastest
C24_Witness ==
    /\ PermDone
    /\ Len(parsed_gear[SlotIndex("main_hand")]) = 2
    /\ Len(parsed_gear[SlotIndex("off_hand")]) = 2
    /\ Len(output) = 4
    /\ ItemIn(output[2].items, "main_hand") = ItemIn(output[1].items, "main_hand")
    /\ ItemIn(output[2].items, "off_hand") # ItemIn(output[1].items, "off_hand")

\* gem variants and talent strings: more than one of each in one run
C24_WitnessGems ==
    /\ PermDone
    /\ Len(talent_permutations) > 1
    /\ \E c \in 1..Len(frames) : Len(frames[c].variants) > 1

\* the number a name of decimal digits stands for
RECURSIVE ValueOf(_)
ValueOf(digits) ==
    IF digits = <<>> THEN 0
    ELSE 10 * ValueOf(SubSeq(digits, 1, Len(digits) - 1)) + digits[Len(digits)]

\* C27: the profile number in the name of each written record is the number
\* of records written before it in the same run (0, 1, 2, ... without gaps),
\* so the names of the records of one output file are pairwise distinct, also
\* when more records are written than the digit width derived from the
\* max-permutations figure has room for.
C27_RecordNamesCountUp ==
    PermRan =>
        /\ \A n \in 1..Len(output) : ValueOf(output[n].name) = n - 1
        /\ \A n, m \in 1..Len(output) :
              n # m => output[n].name # output[m].name
        /\ valid_profiles = Len(output)

\* more than ten records although the figure has one digit
C27_Witness ==
    /\ PermDone
    /\ Len(output) > 10
    /\ max_nperm < 10

\* an item with its gems taken out
Gemless(item) == WithGems(item, <<>>, FALSE)

\* the record was written for the gear combination entries
RecordOf(record, entries) ==
    /\ Len(record.items) = Len(entries)
    /\ \A i \in 1..Len(entries) : Gemless(record.items[i]) = Gemless(entries[i])

\* C28: when gem permutation is active (a gem vocabulary was given and some
\* item of the catalog has a gem), a gear combination none of whose items has
\* a gem id produces no record and leaves the counters valid and processed
\* as they are; for a combination with gems every variant keeps the number of
\* gem ids of each item, and the input items and the requested gem list are
\* not modified.
C28_GemlessCombinationWritesNothing ==
    (PermDone /\ ~gems.none) =>
        /\ \A c \in 1..Len(frames) :
              IF \A i \in 1..Len(EntriesAt(c)) : Len(EntriesAt(c)[i].gem_ids) = 0
              THEN /\ frames[c].none
                   /\ frames[c].variants = <<>>
                   /\ \A n \in 1..Len(output) : ~RecordOf(output[n], EntriesAt(c))
              ELSE /\ ~frames[c].none
                   /\ Len(frames[c].variants) > 0
                   /\ \A v \in 1..Len(frames[c].variants) :
                         \A i \in 1..Len(EntriesAt(c)) :
                             Len(frames[c].variants[v][i].gem_ids)
                                = Len(EntriesAt(c)[i].gem_ids)
        /\ processed = Cardinality(RecordKeys)
        /\ valid_profiles = Cardinality(RecordKeys)
        /\ parsed_gear = Catalog(gear)
        /\ \A item \in UNION {{parsed_gear[s][i] : i \in 1..Len(parsed_gear[s])} :
                                 s \in DOMAIN parsed_gear} : ~item.gem_tuple
        /\ \E requested \in GemArguments : requested.lists = gems.lists

\* a helm with a gem and one without: one combination is permuted, the other
\* one writes nothing
C28_Witness ==
    /\ PermDone
    /\ ~gems.none
    /\ \E c \in 1..Len(frames) : frames[c].none
    /\ \E c \in 1..Len(frames) : ~frames[c].none /\ Len(frames[c].variants) > 1
    /\ Len(output) > 0

\* C29: _launch_simc_commands returns False whenever the process of at least
\* one worker exited with a non-zero code and True only when every process
\* exited with zero, with console output passed through and with console
\* output captured: a failing worker is never reported as success.
C29_FailingWorkerIsNeverSuccess ==
    poolPc = "returned" =>
        (launchResult = "True"
            <=> \A i \in 1..Len(outcome) : outcome[i].code = 0)

\* the entries of a paired slot that are paired: those with an id, or all of
\* them when none has an id
KeptEntries(name) ==
    LET entries == parsed_gear[SlotIndex(name)]
    IN  IF AllZero(entries) THEN entries
        ELSE SelectSeq(entries, LAMBDA item : item.item_id # 0)

DistinctIds(entries) ==
    \A i, j \in 1..Len(entries) :
        /\ entries[i].item_id # 0
        /\ i # j => entries[i].item_id # entries[j].item_id

\* C30: for a paired slot with n entries of pairwise distinct non-zero item
\* ids the pair list has n(n-1)/2 pairs when jewelry is unique and n(n+1)/2
\* pairs otherwise; so with unique jewelry and fewer than two entries for
\* rings or for trinkets (only the dummy included) the pair list is empty and
\* the Permutation Engine writes no record.
C30_NumberOfPairs ==
    PermDone =>
        \A ps \in PairedSlots :
            LET n == Len(KeptEntries(ps[1]))
                pairs == special_permutations[ps[1]]
            IN  /\ DistinctIds(KeptEntries(ps[1])) =>
                      Len(pairs) * 2 = IF unique_jewelry THEN n * (n - 1)
                                       ELSE n * (n + 1)
                /\ (unique_jewelry /\ n < 2) =>
                      /\ pairs = <<>>
                      /\ output = <<>>
                      /\ valid_profiles = 0

\* three rings with three ids, jewelry unique: three pairs
C30_Witness ==
    /\ PermDone
    /\ unique_jewelry
    /\ Len(KeptEntries("finger")) = 3
    /\ DistinctIds(KeptEntries("finger"))
    /\ Len(special_permutations.finger) = 3

\* three rings with three ids, jewelry not unique: six pairs
C30_WitnessReplacement ==
    /\ PermDone
    /\ ~unique_jewelry
    /\ Len(KeptEntries("finger")) = 3
    /\ DistinctIds(KeptEntries("finger"))
    /\ Len(special_permutations.finger) = 6

\* jewelry unique and no trinket given: nothing is written
C30_WitnessEmpty ==
    /\ PermDone
    /\ unique_jewelry
    /\ Len(KeptEntries("finger")) >= 2
    /\ Len(special_permutations.finger) > 0
    /\ special_permutations.trinket = <<>>
    /\ output = <<>>

====
